---- MODULE Spec2Model ----
(***************************************************************************)
(* A model of TermSage (TheBitty/TheTermAgent): the shell command executor *)
(* (command_handler.py), the configuration store (config.py), the          *)
(* inference client (ollama_helper.py) and the router's model-switch       *)
(* handler (command_registry.py).                                          *)
(*                                                                         *)
(* Text is modelled as sequences of one-character strings, so that         *)
(* startswith, strip, tokenisation, expansion and key concatenation are    *)
(* computed character by character as the code computes them.              *)
(***************************************************************************)
EXTENDS Integers, Sequences, FiniteSets, TLC

VARIABLES
    cwd,              \* os.getcwd(): the process working directory (text)
    last_exit_code,   \* CommandHandler.last_exit_code
    lastExec,         \* what the most recent CommandHandler.execute call did
    file,             \* the configuration file on disk
    writable,         \* whether the file system accepts a write of the file
    readable,         \* whether the file system accepts a read of the file
    running,          \* whether a process holds a loaded Config
    defaults,         \* the module-level dict c_DEFAULT_CONFIG
    shared,           \* top-level keys whose nested dict object settings shares with defaults
    settings,         \* Config.settings
    lastCfg,          \* what the most recent Config operation did
    current_model,    \* OllamaHelper.current_model
    help_cache,       \* OllamaHelper._help_cache, in insertion order
    helpCalls,        \* number of get_help calls made so far
    prevHelp,         \* the get_help call before the most recent one
    lastHelp,         \* the most recent get_help call
    lastSwitch,       \* what the most recent switch_model / `/model` command did
    lastAi,           \* the most recent is_available / chat / get_error_help call
    chat_mode,        \* AppState.chat_mode
    recent_commands,  \* AppState.recent_commands
    command_count,    \* AppState.command_count
    looping,          \* whether main's `while True` loop is still running
    lastLoop,         \* what the most recent iteration of the loop did
    pc,               \* where the main thread is within a help or chat request
    indicators,       \* the LoadingIndicator objects created so far and their threads
    stdout            \* what was written to the terminal by requests, in order

execVars == <<cwd, last_exit_code, lastExec>>
cfgVars == <<file, writable, readable, running, defaults, shared, settings, lastCfg>>
aiVars == <<current_model, help_cache, helpCalls, prevHelp, lastHelp, lastSwitch>>
loopVars == <<lastAi, chat_mode, recent_commands, command_count, looping, lastLoop>>
uiVars == <<pc, indicators, stdout>>
vars == <<cwd, last_exit_code, lastExec, file, writable, readable, running, defaults,
          shared, settings, lastCfg, current_model, help_cache, helpCalls, prevHelp,
          lastHelp, lastSwitch, lastAi, chat_mode, recent_commands, command_count,
          looping, lastLoop, pc, indicators, stdout>>

(***************************************************************************)
(* Text helpers (Python str operations)                                    *)
(***************************************************************************)

\* str.startswith(prefix)
StartsWith(s, prefix) ==
    /\ Len(s) >= Len(prefix)
    /\ SubSeq(s, 1, Len(prefix)) = prefix

\* Whitespace characters of the modelled alphabet.
Whitespace == {" "}

RECURSIVE LStrip(_)
LStrip(s) ==
    IF s # <<>> /\ Head(s) \in Whitespace THEN LStrip(Tail(s)) ELSE s

RECURSIVE RStrip(_)
RStrip(s) ==
    IF s # <<>> /\ s[Len(s)] \in Whitespace THEN RStrip(SubSeq(s, 1, Len(s) - 1)) ELSE s

\* str.strip()
Strip(s) == RStrip(LStrip(s))

\* The characters \w matches, among those the modelled inputs use.
WordChars ==
    {"a", "b", "c", "d", "e", "f", "g", "h", "l", "m", "o", "p", "r", "s", "t", "u",
     "x", "y", "z", "T", "U", "V", "1", "2", "_"}

\* Index of the first occurrence of character c in s at or after position i; 0 if none.
RECURSIVE Find(_, _, _)
Find(s, c, i) ==
    IF i > Len(s) THEN 0
    ELSE IF s[i] = c THEN i
    ELSE Find(s, c, i + 1)

\* str.split(sep) for a one-character separator.
RECURSIVE SplitOn(_, _)
SplitOn(s, sep) ==
    LET i == Find(s, sep, 1) IN
    IF i = 0 THEN <<s>>
    ELSE <<SubSeq(s, 1, i - 1)>> \o SplitOn(SubSeq(s, i + 1, Len(s)), sep)

(***************************************************************************)
(* The host environment of the executor: directory tree, users, variables  *)
(***************************************************************************)

\* The paths of the modelled directory tree, as texts.
P ==
    [root |-> <<"/">>,
     a |-> <<"/", "a">>,
     ab |-> <<"/", "a", "/", "b">>,
     home |-> <<"/", "h">>,
     xy |-> <<"/", "x", " ", "y">>,
     r |-> <<"/", "r">>,
     f |-> <<"/", "f">>,
     zz |-> <<"/", "z", "z">>,
     u |-> <<"/", "b", "_">>,
     ua |-> <<"/", "b", "_", "/", "a">>]

\* Existing directories the process may enter.
Dirs == {P.root, P.a, P.ab, P.home, P.xy, P.r, P.u, P.ua}
\* Directories without search permission for the process.
NoAccess == {P.r}
\* Existing paths that are regular files.
Files == {P.f}

\* os.environ
Environ ==
    [n \in {<<"H", "O", "M", "E">>, <<"V">>, <<"T">>} |->
        IF n = <<"V">> THEN P.a
        ELSE IF n = <<"T">> THEN <<"~">>
        ELSE P.home]

\* pwd.getpwnam(name).pw_dir for the known users.
PwDir == [n \in {<<"u">>} |-> P.a]

(***************************************************************************)
(* shlex.split, os.path.expanduser, os.path.expandvars, os.chdir           *)
(***************************************************************************)

\* shlex.split(command) in POSIX mode with whitespace_split: q is the open quote
\* ("" for none), cur the token being read, has whether a token is being read
\* (a quoted empty string is a token). An unclosed quote raises ValueError.
RECURSIVE Lex(_, _, _, _, _, _)
Lex(s, i, q, cur, has, toks) ==
    IF i > Len(s)
    THEN IF q # ""
         THEN [ok |-> FALSE, toks |-> <<>>]
         ELSE [ok |-> TRUE, toks |-> IF has THEN Append(toks, cur) ELSE toks]
    ELSE LET c == s[i] IN
         IF q # ""
         THEN IF c = q
              THEN Lex(s, i + 1, "", cur, TRUE, toks)
              ELSE Lex(s, i + 1, q, Append(cur, c), TRUE, toks)
         ELSE IF c \in Whitespace
              THEN Lex(s, i + 1, "", <<>>, FALSE, IF has THEN Append(toks, cur) ELSE toks)
         ELSE IF c \in {"'", "\""}
              THEN Lex(s, i + 1, c, cur, TRUE, toks)
         ELSE Lex(s, i + 1, "", Append(cur, c), TRUE, toks)

ShlexSplit(command) == Lex(command, 1, "", <<>>, FALSE, <<>>)

\* str.rstrip("/")
RECURSIVE RStripSlash(_)
RStripSlash(s) ==
    IF s # <<>> /\ s[Len(s)] = "/" THEN RStripSlash(SubSeq(s, 1, Len(s) - 1)) ELSE s

\* os.path.expanduser(path): a leading ~ or ~user up to the first slash is replaced
\* by that user's home directory; an unknown user leaves the path unchanged.
ExpandUser(path) ==
    IF ~StartsWith(path, <<"~">>) THEN path
    ELSE LET f == Find(path, "/", 2)
             i == IF f = 0 THEN Len(path) + 1 ELSE f
             name == SubSeq(path, 2, i - 1)
             rest == SubSeq(path, i, Len(path))
         IN  IF i = 2
             THEN LET r == RStripSlash(Environ[<<"H", "O", "M", "E">>]) \o rest IN
                  IF r = <<>> THEN <<"/">> ELSE r
             ELSE IF name \in DOMAIN PwDir
             THEN LET r == RStripSlash(PwDir[name]) \o rest IN
                  IF r = <<>> THEN <<"/">> ELSE r
             ELSE path

\* End of the maximal run of word characters of s starting at position i (i - 1 if none).
RECURSIVE WordEnd(_, _)
WordEnd(s, i) ==
    IF i <= Len(s) /\ s[i] \in WordChars THEN WordEnd(s, i + 1) ELSE i - 1

\* os.path.expandvars(path) from position i on: $NAME is replaced by the value of
\* NAME when it is set and left as it is otherwise; substituted text is not rescanned.
RECURSIVE ExpandVarsFrom(_, _)
ExpandVarsFrom(s, i) ==
    LET p == Find(s, "$", i) IN
    IF p = 0 THEN s
    ELSE LET e == WordEnd(s, p + 1)
             name == SubSeq(s, p + 1, e)
         IN  IF e < p + 1 THEN ExpandVarsFrom(s, p + 1)
             ELSE IF name \in DOMAIN Environ
             THEN LET head == SubSeq(s, 1, p - 1) \o Environ[name] IN
                  ExpandVarsFrom(head \o SubSeq(s, e + 1, Len(s)), Len(head) + 1)
             ELSE ExpandVarsFrom(s, e + 1)

ExpandVars(path) == ExpandVarsFrom(path, 1)

\* The components of a path (empty components dropped).
Comps(path) == SelectSeq(SplitOn(path, "/"), LAMBDA c : c # <<>>)

\* The absolute path text of a component list, as os.getcwd() reports it.
RECURSIVE JoinAbs(_)
JoinAbs(comps) ==
    IF comps = <<>> THEN <<"/">>
    ELSE IF Len(comps) = 1 THEN <<"/">> \o comps[1]
    ELSE JoinAbs(SubSeq(comps, 1, Len(comps) - 1)) \o <<"/">> \o comps[Len(comps)]

\* The kernel's path lookup for chdir: at is the directory reached so far (a
\* component list), rest the components still to resolve.
RECURSIVE Walk(_, _)
Walk(at, rest) ==
    IF rest = <<>>
    THEN IF JoinAbs(at) \in NoAccess
         THEN [err |-> "EACCES", path |-> JoinAbs(at)]
         ELSE [err |-> "ok", path |-> JoinAbs(at)]
    ELSE LET c == Head(rest) IN
         IF JoinAbs(at) \in NoAccess THEN [err |-> "EACCES", path |-> JoinAbs(at)]
         ELSE IF c = <<".">> THEN Walk(at, Tail(rest))
         ELSE IF c = <<".", ".">>
              THEN Walk(IF at = <<>> THEN at ELSE SubSeq(at, 1, Len(at) - 1), Tail(rest))
         ELSE LET child == Append(at, c) IN
              IF JoinAbs(child) \in Dirs THEN Walk(child, Tail(rest))
              ELSE IF JoinAbs(child) \in Files
                   THEN [err |-> "ENOTDIR", path |-> JoinAbs(child)]
              ELSE [err |-> "ENOENT", path |-> JoinAbs(child)]

\* os.chdir(path) called with working directory wd: the error raised ("ok" for
\* none) and the working directory entered.
Chdir(wd, path) ==
    IF path = <<>> THEN [err |-> "ENOENT", path |-> wd]
    ELSE IF Head(path) = "/" THEN Walk(<<>>, Comps(path))
    ELSE Walk(Comps(wd), Comps(path))

(***************************************************************************)
(* CommandHandler (command_handler.py)                                     *)
(***************************************************************************)

NoText == [msg |-> "", arg |-> <<>>]

\* CommandResult(stdout, stderr, exit_code)
CommandResult(out, err, code) == [stdout |-> out, stderr |-> err, exit_code |-> code]

\* What an execute call leaves behind: whether it raised, the working directory,
\* the stored exit code, the returned result and the lines handed to the shell.
Outcome(raised, wd, lec, res, shell) ==
    [raised |-> raised, cwd |-> wd, last_exit_code |-> lec, result |-> res, shell |-> shell]

\* Literal texts the code compares lines with: the cd tests of execute, the
\* home shorthand, and the prefix of the /model pattern command.
L ==
    [cd |-> <<"c", "d">>,
     cdsp |-> <<"c", "d", " ">>,
     cdhome |-> <<"c", "d", " ", "~">>,
     model |-> <<"/", "m", "o", "d", "e", "l", " ">>]

\* The result field of a call that raised instead of returning.
NoResult == [stdout |-> NoText, stderr |-> NoText, exit_code |-> -1]

\* CommandHandler._handle_cd(command), called with working directory wd and stored
\* exit code lec. shlex.split runs outside the try block: its ValueError leaves
\* the method (and execute) as an exception.
HandleCd_StaleExit(command, wd, lec) ==
    LET sp == ShlexSplit(command)
        raw == IF Len(sp.toks) < 2 THEN ExpandUser(<<"~">>) ELSE sp.toks[2]
        path == ExpandVars(ExpandUser(raw))
        r == Chdir(wd, path)
    IN  IF ~sp.ok THEN Outcome(TRUE, wd, lec, NoResult, <<>>)
        ELSE IF r.err = "ok"
        THEN Outcome(FALSE, r.path, lec, CommandResult(NoText, NoText, 0), <<>>)
        ELSE Outcome(FALSE, wd, 1,
                     CommandResult(NoText, [msg |-> "cd: ", arg |-> path], 1), <<>>)

HandleCd_ErrorKeepsExit(command, wd, lec) ==
    LET sp == ShlexSplit(command)
        raw == IF Len(sp.toks) < 2 THEN ExpandUser(<<"~">>) ELSE sp.toks[2]
        path == ExpandVars(ExpandUser(raw))
        r == Chdir(wd, path)
    IN  IF ~sp.ok THEN Outcome(TRUE, wd, lec, NoResult, <<>>)
        ELSE IF r.err = "ok"
        THEN Outcome(FALSE, r.path, 0, CommandResult(NoText, NoText, 0), <<>>)
        ELSE Outcome(FALSE, wd, lec,
                     CommandResult(NoText, [msg |-> "cd: ", arg |-> path], 1), <<>>)

HandleCd(command, wd, lec) ==
    LET sp == ShlexSplit(command)
        raw == IF Len(sp.toks) < 2 THEN ExpandUser(<<"~">>) ELSE sp.toks[2]
        path == ExpandVars(ExpandUser(raw))
        r == Chdir(wd, path)
    IN  IF ~sp.ok THEN Outcome(TRUE, wd, lec, NoResult, <<>>)
        ELSE IF r.err = "ok"
        THEN Outcome(FALSE, r.path, 0, CommandResult(NoText, NoText, 0), <<>>)
        ELSE IF r.err = "ENOENT"
        THEN Outcome(FALSE, wd, 1,
                     CommandResult(NoText,
                         [msg |-> "cd: no such file or directory: ", arg |-> path], 1),
                     <<>>)
        ELSE IF r.err = "EACCES"
        THEN Outcome(FALSE, wd, 1,
                     CommandResult(NoText,
                         [msg |-> "cd: permission denied: ", arg |-> path], 1),
                     <<>>)
        ELSE Outcome(FALSE, wd, 1,
                     CommandResult(NoText, [msg |-> "cd: ", arg |-> path], 1), <<>>)

\* What subprocess.run(command, shell=True, ...) can do: fail to launch the
\* shell, or run the line and report its streams and return code.
ShellOutcomes ==
    {[launched |-> FALSE, returncode |-> 1, stdout |-> NoText, stderr |-> NoText]}
    \cup {[launched |-> TRUE, returncode |-> 0,
           stdout |-> [msg |-> "out", arg |-> <<>>], stderr |-> NoText]}
    \cup {[launched |-> TRUE, returncode |-> c,
           stdout |-> NoText, stderr |-> [msg |-> "err", arg |-> <<>>]] : c \in {1, 127}}

\* execute as it would be if the empty-line branch stored its exit code.
ExecuteOp_EmptyResetsExit(command, wd, lec, sh) ==
    IF Strip(command) = <<>>
    THEN Outcome(FALSE, wd, 0, CommandResult(NoText, NoText, 0), <<>>)
    ELSE IF StartsWith(command, L.cdsp) THEN HandleCd(command, wd, lec)
    ELSE IF Strip(command) = L.cd THEN HandleCd(L.cdhome, wd, lec)
    ELSE IF sh.launched
    THEN Outcome(FALSE, wd, sh.returncode,
                 CommandResult(sh.stdout, sh.stderr, sh.returncode), <<command>>)
    ELSE Outcome(FALSE, wd, 1,
                 CommandResult(NoText,
                     [msg |-> "Command execution failed: ", arg |-> <<>>], 1),
                 <<>>)

\* execute as it would be without the assignment of result.returncode.
ExecuteOp_ShellKeepsExit(command, wd, lec, sh) ==
    IF Strip(command) = <<>>
    THEN Outcome(FALSE, wd, lec, CommandResult(NoText, NoText, 0), <<>>)
    ELSE IF StartsWith(command, L.cdsp) THEN HandleCd(command, wd, lec)
    ELSE IF Strip(command) = L.cd THEN HandleCd(L.cdhome, wd, lec)
    ELSE IF sh.launched
    THEN Outcome(FALSE, wd, lec,
                 CommandResult(sh.stdout, sh.stderr, sh.returncode), <<command>>)
    ELSE Outcome(FALSE, wd, 1,
                 CommandResult(NoText,
                     [msg |-> "Command execution failed: ", arg |-> <<>>], 1),
                 <<>>)

\* CommandHandler.execute(command); sh is what the shell does if it is asked.
ExecuteOp(command, wd, lec, sh) ==
    IF Strip(command) = <<>>
    THEN Outcome(FALSE, wd, lec, CommandResult(NoText, NoText, 0), <<>>)
    ELSE IF StartsWith(command, L.cdsp) THEN HandleCd(command, wd, lec)
    ELSE IF Strip(command) = L.cd THEN HandleCd(L.cdhome, wd, lec)
    ELSE IF sh.launched
    THEN Outcome(FALSE, wd, sh.returncode,
                 CommandResult(sh.stdout, sh.stderr, sh.returncode), <<command>>)
    ELSE Outcome(FALSE, wd, 1,
                 CommandResult(NoText,
                     [msg |-> "Command execution failed: ", arg |-> <<>>], 1),
                 <<>>)

\* The input lines given to the executor.
ExecLines ==
    {<<>>, <<" ", " ">>, L.cd, L.cdsp, L.cdhome,
     L.cdsp \o P.a,                                   \* cd /a
     L.cdsp \o <<"b">>,                               \* cd b
     L.cdsp \o <<".", ".">>,                          \* cd ..
     L.cdsp \o <<"~", "u">>,                          \* cd ~u
     L.cdsp \o <<"~", "/", "z">>,                     \* cd ~/z
     L.cdsp \o <<"$", "V">>,                          \* cd $V
     L.cdsp \o <<"$", "V", "/", "b">>,                \* cd $V/b
     L.cdsp \o <<"$", "T">>,                          \* cd $T
     L.cdsp \o <<"$", "U">>,                          \* cd $U
     L.cdsp \o <<"'">> \o P.xy \o <<"'">>,            \* cd '/x y'
     L.cdsp \o <<"\"">> \o P.a \o <<"\"", "/", "b">>, \* cd "/a"/b
     L.cdsp \o <<"'", "'">>,                          \* cd ''
     L.cdsp \o <<"'">> \o P.a,                        \* cd '/a
     L.cdsp \o P.zz,                                  \* cd /zz
     L.cdsp \o P.r,                                   \* cd /r
     L.cdsp \o P.f,                                   \* cd /f
     L.cdsp \o P.a \o <<" ">> \o P.zz,                \* cd /a /zz
     L.cdsp \o P.a \o <<" ", "&", "&", " ", "l", "s">>, \* cd /a && ls
     <<" ">> \o L.cdsp \o P.a,                        \* (space)cd /a
     <<"l", "s">>}                                    \* ls

NoExec ==
    [called |-> FALSE, line |-> <<>>, cwdBefore |-> P.home, lecBefore |-> 0,
     raised |-> FALSE, result |-> CommandResult(NoText, NoText, 0), shell |-> <<>>]

\* One CommandHandler.execute call.
Execute(line, sh) ==
    LET o == ExecuteOp(line, cwd, last_exit_code, sh) IN
    /\ cwd' = o.cwd
    /\ last_exit_code' = o.last_exit_code
    /\ lastExec' = [called |-> TRUE, line |-> line, cwdBefore |-> cwd,
                    lecBefore |-> last_exit_code, raised |-> o.raised,
                    result |-> o.result, shell |-> o.shell]
    /\ UNCHANGED <<uiVars, loopVars, cfgVars, aiVars>>

ExecInit ==
    /\ cwd = P.home
    /\ last_exit_code = 0
    /\ lastExec = NoExec
(***************************************************************************)
(* Config (config.py)                                                      *)
(*                                                                         *)
(* A JSON value is a scalar S(text), a mapping D(f) with f a function from *)
(* keys to JSON values, or a list. A dotted key is modelled by the list of *)
(* its segments, which is what key.split(".") yields.                      *)
(***************************************************************************)

S(v) == [s |-> v]
D(f) == [d |-> f]
JList == [l |-> <<>>]
IsDict(v) == "d" \in DOMAIN v

\* Scalar values of the configuration and model names, as texts.
T ==
    [llama2 |-> <<"l", "l", "a", "m", "a", "2">>,
     mistral |-> <<"m", "i", "s", "t", "r", "a", "l">>,
     mystery |-> <<"g", "p", "t">>,
     true |-> <<"true">>,
     false |-> <<"false">>]

\* c_DEFAULT_CONFIG as the module defines it.
DefaultConfig ==
    [terminal |-> D([history_size |-> S(<<"1000">>),
                     prompt_style |-> S(<<"simple">>),
                     start_with_sudo |-> S(T.false)]),
     ai |-> D([model |-> S(T.llama2),
               enabled |-> S(T.true),
               help_on_error |-> S(T.true),
               base_url |-> S(<<"http://localhost:11434">>)])]

\* Every dotted key of the compiled-in defaults.
DefaultPaths ==
    {<<"terminal", "history_size">>, <<"terminal", "prompt_style">>,
     <<"terminal", "start_with_sudo">>, <<"ai", "model">>, <<"ai", "enabled">>,
     <<"ai", "help_on_error">>, <<"ai", "base_url">>}

\* Config._merge_configs(default, user) for two mappings.
RECURSIVE MergeConfigs(_, _)
MergeConfigs(default, user) ==
    [k \in (DOMAIN default) \cup (DOMAIN user) |->
        IF k \in DOMAIN user
        THEN IF k \in DOMAIN default /\ IsDict(default[k]) /\ IsDict(user[k])
             THEN D(MergeConfigs(default[k].d, user[k].d))
             ELSE user[k]
        ELSE default[k]]

\* What get returns when the key is not found and no default is given (None).
None == [none |-> TRUE]

\* Config.get(key, default) on the mapping d.
RECURSIVE GetIn(_, _, _)
GetIn(value, keys, dflt) ==
    IF keys = <<>> THEN value
    ELSE IF IsDict(value) /\ Head(keys) \in DOMAIN value.d
    THEN GetIn(value.d[Head(keys)], Tail(keys), dflt)
    ELSE dflt

ConfigGet(d, keys, dflt) == GetIn(D(d), keys, dflt)

\* The mapping f with key k bound to v (dict item assignment).
Put(f, k, v) == [x \in (DOMAIN f) \cup {k} |-> IF x = k THEN v ELSE f[x]]

\* Config.set(key, value) on the mapping target: [ok, d]. Walking into a value
\* that is not a mapping raises TypeError (ok = FALSE) before anything was
\* created, so the mapping is unchanged then.
RECURSIVE SetIn(_, _, _)
SetIn(target, keys, value) ==
    IF Len(keys) = 1 THEN [ok |-> TRUE, d |-> Put(target, keys[1], value)]
    ELSE LET k == Head(keys)
             next == IF k \in DOMAIN target THEN target[k] ELSE D(<<>>)
         IN  IF ~IsDict(next) THEN [ok |-> FALSE, d |-> target]
             ELSE LET r == SetIn(next.d, Tail(keys), value) IN
                  [ok |-> r.ok, d |-> IF r.ok THEN Put(target, k, D(r.d)) ELSE target]

\* The configuration file: absent, zero bytes, text that is not JSON, or JSON text.
FileAbsent == [kind |-> "absent", val |-> JList]
FileEmpty == [kind |-> "empty", val |-> JList]
FileGarbage == [kind |-> "garbage", val |-> JList]
\* json.dump(config, f) followed by a later json.load(f)
FileJson(v) == [kind |-> "json", val |-> v]
\* Config._save_config(config): the file after the call; w is whether the write
\* succeeds (an IOError is caught and only reported).
SaveConfig(f, w, config) == IF w THEN FileJson(D(config)) ELSE f

\* Config._load_config() on file f, with r whether the read succeeds, w whether
\* a write succeeds and dflt the current c_DEFAULT_CONFIG: whether it raised, the
\* settings returned, the file left behind and the top-level keys whose nested
\* dict is the very object c_DEFAULT_CONFIG holds (dict.copy() is shallow).
LoadConfig_NoWriteBack(f, r, w, dflt) ==
    IF f.kind = "absent" \/ ~r \/ f.kind \in {"empty", "garbage"}
    THEN [raised |-> FALSE, settings |-> dflt, file |-> SaveConfig(f, w, dflt),
          shared |-> DOMAIN dflt]
    ELSE IF ~IsDict(f.val)
    THEN [raised |-> TRUE, settings |-> <<>>, file |-> f, shared |-> {}]
    ELSE [raised |-> FALSE, settings |-> MergeConfigs(dflt, f.val.d), file |-> f,
          shared |-> (DOMAIN dflt) \ (DOMAIN f.val.d)]

LoadConfig(f, r, w, dflt) ==
    IF f.kind = "absent" \/ ~r \/ f.kind \in {"empty", "garbage"}
    THEN [raised |-> FALSE, settings |-> dflt, file |-> SaveConfig(f, w, dflt),
          shared |-> DOMAIN dflt]
    ELSE IF ~IsDict(f.val)
    THEN [raised |-> TRUE, settings |-> <<>>, file |-> f, shared |-> {}]
    ELSE LET merged == MergeConfigs(dflt, f.val.d) IN
         [raised |-> FALSE, settings |-> merged,
          file |-> IF merged # f.val.d THEN SaveConfig(f, w, merged) ELSE f,
          shared |-> (DOMAIN dflt) \ (DOMAIN f.val.d)]

\* Config.set(key, value) on the configuration state st = [settings, defaults,
\* shared]: a write below a top-level key whose nested dict is shared with
\* c_DEFAULT_CONFIG changes that dict for both; binding a top-level key rebinds
\* it in settings alone.
ConfigSet(st, keys, value) ==
    LET r == SetIn(st.settings, keys, value)
        top == Head(keys)
    IN  IF ~r.ok
        THEN [ok |-> FALSE, settings |-> st.settings, defaults |-> st.defaults,
              shared |-> st.shared]
        ELSE [ok |-> TRUE,
              settings |-> r.d,
              defaults |-> IF Len(keys) > 1 /\ top \in st.shared
                           THEN Put(st.defaults, top, r.d[top])
                           ELSE st.defaults,
              shared |-> IF Len(keys) = 1 THEN st.shared \ {top} ELSE st.shared]

CfgState == [settings |-> settings, defaults |-> defaults, shared |-> shared]

NoPrevLoad == [valid |-> FALSE, fileBefore |-> FileAbsent, file |-> FileAbsent, settings |-> <<>>]

\* The record of a Config operation.
CfgOp(op, raised, keys, value, got, fileBefore, prev) ==
    [op |-> op, raised |-> raised, keys |-> keys, value |-> value, got |-> got,
     fileBefore |-> fileBefore, readable |-> readable, writable |-> writable,
     prev |-> prev]

NoCfg == [op |-> "none", raised |-> FALSE, keys |-> <<>>, value |-> None, got |-> None,
          fileBefore |-> FileAbsent, readable |-> TRUE, writable |-> TRUE,
          prev |-> NoPrevLoad]

\* The JSON documents a user may have left in the configuration file.
UserFiles ==
    {FileEmpty, FileGarbage,
     FileJson(D(<<>>)),
     FileJson(D([ai |-> D([model |-> S(T.mistral)])])),
     FileJson(D([ai |-> S(<<"off">>)])),
     FileJson(D([extra |-> D([k |-> S(<<"v">>)])])),
     FileJson(JList),
     FileJson(S(<<"text">>))}

\* The dotted keys and values given to set and get.
SetKeys ==
    {<<"ai", "model">>, <<"a", "b", "c">>, <<"ai", "model", "x">>, <<"terminal">>}
SetValues == {S(T.mistral), S(T.true)}

\* Process start: the module is imported (c_DEFAULT_CONFIG is fresh) and
\* Config() loads the file (main.py line 91). A raise ends the process.
Start ==
    /\ ~running
    /\ LET r == LoadConfig(file, readable, writable, DefaultConfig) IN
       /\ running' = ~r.raised
       /\ defaults' = DefaultConfig
       /\ settings' = r.settings
       /\ shared' = r.shared
       /\ file' = r.file
       /\ lastCfg' = CfgOp("load", r.raised, <<>>, None, None, file,
                           IF lastCfg.op = "load" /\ ~lastCfg.raised
                           THEN [valid |-> TRUE, fileBefore |-> lastCfg.fileBefore,
                                 file |-> file, settings |-> settings]
                           ELSE NoPrevLoad)
    /\ UNCHANGED <<uiVars, loopVars, readable, writable, execVars, aiVars>>

\* Config.set(key, value)
CfgSet(keys, value) ==
    /\ running
    /\ LET r == ConfigSet(CfgState, keys, value) IN
       /\ settings' = r.settings
       /\ defaults' = r.defaults
       /\ shared' = r.shared
       /\ lastCfg' = CfgOp("set", ~r.ok, keys, value, None, file, NoPrevLoad)
    /\ UNCHANGED <<uiVars, loopVars, file, readable, writable, running, execVars, aiVars>>

\* Config.get(key)
CfgGet(keys) ==
    /\ running
    /\ lastCfg' = CfgOp("get", FALSE, keys, None, ConfigGet(settings, keys, None),
                        file, NoPrevLoad)
    /\ UNCHANGED <<uiVars, loopVars, file, readable, writable, running, defaults, shared, settings,
                   execVars, aiVars>>

\* Config.save()
CfgSave ==
    /\ running
    /\ file' = SaveConfig(file, writable, settings)
    /\ lastCfg' = CfgOp("save", FALSE, <<>>, None, None, file, NoPrevLoad)
    /\ UNCHANGED <<uiVars, loopVars, readable, writable, running, defaults, shared, settings,
                   execVars, aiVars>>

\* Config.reset_to_defaults()
CfgReset ==
    /\ running
    /\ settings' = defaults
    /\ shared' = DOMAIN defaults
    /\ file' = SaveConfig(file, writable, defaults)
    /\ lastCfg' = CfgOp("reset", FALSE, <<>>, None, None, file, NoPrevLoad)
    /\ UNCHANGED <<uiVars, loopVars, readable, writable, running, defaults, execVars, aiVars>>

\* The process ends; the file stays.
Exit ==
    /\ running
    /\ running' = FALSE
    /\ UNCHANGED <<uiVars, loopVars, file, readable, writable, defaults, shared, settings, lastCfg,
                   execVars, aiVars>>

\* Between runs the user replaces the configuration file.
UserWritesFile(f) ==
    /\ ~running
    /\ file' = f
    /\ lastCfg' = CfgOp("env", FALSE, <<>>, None, None, file, NoPrevLoad)
    /\ UNCHANGED <<uiVars, loopVars, readable, writable, running, defaults, shared, settings,
                   execVars, aiVars>>

\* Between runs the permissions of the file change.
SetPermissions(r, w) ==
    /\ ~running
    /\ <<r, w>> # <<readable, writable>>
    /\ readable' = r
    /\ writable' = w
    /\ lastCfg' = [CfgOp("env", FALSE, <<>>, None, None, file, NoPrevLoad)
                      EXCEPT !.readable = r, !.writable = w]
    /\ UNCHANGED <<uiVars, loopVars, file, running, defaults, shared, settings, execVars, aiVars>>

\* Before the first run: no file, no process.
CfgInit ==
    /\ file = FileAbsent
    /\ writable = TRUE
    /\ readable = TRUE
    /\ running = FALSE
    /\ defaults = DefaultConfig
    /\ shared = {}
    /\ settings = <<>>
    /\ lastCfg = NoCfg
(***************************************************************************)
(* OllamaHelper (ollama_helper.py)                                         *)
(***************************************************************************)

\* Bound of the help cache (ollama_helper.py line 200).
c_HelpCacheMax == 20

\* An HTTP request sent to the backend: its endpoint, how it ended, and the
\* model named in its body (empty for the catalog endpoint).
Req(ep, out, model) == [ep |-> ep, out |-> out, model |-> model]

\* How a request to the backend can end: answered with 2xx, timed out,
\* connection refused, answered with a non-2xx status.
ProbeOutcomes == {"ok", "timeout", "conn", "http"}

\* OllamaHelper.is_available() given how its GET /api/tags ended.
IsAvailable(probe) == probe = "ok"

\* The installed-model catalog the backend serves.
Catalog == <<T.llama2, T.mistral>>

Range(seq) == {seq[i] : i \in DOMAIN seq}

\* cache_key = f"help_{command}_{os.getcwd()}"
HelpKey(command, wd) == <<"h", "e", "l", "p", "_">> \o command \o <<"_">> \o wd

\* cache_key in self._help_cache
CacheHas(cache, key) == \E i \in DOMAIN cache : cache[i].key = key

\* self._help_cache[cache_key]
CacheGet(cache, key) == cache[CHOOSE i \in DOMAIN cache : cache[i].key = key].text

\* self._help_cache[cache_key] = text: a dict keeps a known key in its place and
\* appends a new one.
CachePut(cache, key, text) ==
    IF CacheHas(cache, key)
    THEN [i \in DOMAIN cache |->
             IF cache[i].key = key THEN [key |-> key, text |-> text] ELSE cache[i]]
    ELSE Append(cache, [key |-> key, text |-> text])

\* formatted_response = f"(bulb) {ai_response}"
FormatHelp(ai) == [msg |-> "bulb ", arg |-> ai]

KeepCacheBounded_EvictsNewest(cache) ==
    IF Len(cache) > c_HelpCacheMax THEN SubSeq(cache, 1, Len(cache) - 1) ELSE cache

KeepCacheBounded_OffByOne(cache) ==
    IF Len(cache) > c_HelpCacheMax + 1 THEN Tail(cache) ELSE cache

\* if len(self._help_cache) > 20: self._help_cache.pop(next(iter(self._help_cache)))
KeepCacheBounded(cache) ==
    IF Len(cache) > c_HelpCacheMax THEN Tail(cache) ELSE cache

\* OllamaHelper.get_help(command) with working directory wd, cache contents
\* cache and current model model; probe is how the health probe ends and gen
\* how the completion request ends (gen.text is the "response" field).
GetHelpOp(command, wd, cache, model, probe, gen) ==
    IF Strip(command) = <<>>
    THEN [result |-> [msg |-> "Please specify a command to get help for.", arg |-> <<>>],
          cache |-> cache, reqs |-> <<>>, hit |-> FALSE, raised |-> FALSE]
    ELSE IF ~IsAvailable(probe)
    THEN [result |-> [msg |-> "Ollama not available", arg |-> <<>>],
          cache |-> cache, reqs |-> <<Req("tags", probe, <<>>)>>, hit |-> FALSE, raised |-> FALSE]
    ELSE LET key == HelpKey(command, wd)
             ai == Strip(gen.text)
             formatted == FormatHelp(ai)
             put == CachePut(cache, key, formatted)
             sent == <<Req("tags", probe, <<>>), Req("generate", gen.out, model)>>
         IN  IF CacheHas(cache, key)
             THEN [result |-> CacheGet(cache, key), cache |-> cache,
                   reqs |-> <<Req("tags", probe, <<>>)>>, hit |-> TRUE, raised |-> FALSE]
             ELSE IF gen.out = "ok"
             THEN IF ai # <<>>
                  THEN [result |-> formatted,
                        cache |-> KeepCacheBounded(put),
                        reqs |-> sent, hit |-> FALSE, raised |-> FALSE]
                  ELSE [result |-> [msg |-> "No response from AI model", arg |-> <<>>],
                        cache |-> cache, reqs |-> sent, hit |-> FALSE, raised |-> FALSE]
             ELSE IF gen.out = "timeout"
             THEN [result |-> [msg |-> "Response timeout. Try: man ", arg |-> command],
                   cache |-> cache, reqs |-> sent, hit |-> FALSE, raised |-> FALSE]
             ELSE IF gen.out \in {"conn", "http"}
             THEN [result |-> [msg |-> "Connection error. Try: man ", arg |-> command],
                   cache |-> cache, reqs |-> sent, hit |-> FALSE, raised |-> FALSE]
             ELSE [result |-> [msg |-> "Error getting help: ", arg |-> <<>>],
                   cache |-> cache, reqs |-> sent, hit |-> FALSE, raised |-> FALSE]

NoHelp ==
    [called |-> FALSE, command |-> <<>>, cwd |-> P.home, result |-> NoText,
     reqs |-> <<>>, hit |-> FALSE, raised |-> FALSE]

\* One OllamaHelper.get_help call.
GetHelp(command, probe, gen) ==
    LET o == GetHelpOp(command, cwd, help_cache, current_model, probe, gen) IN
    /\ help_cache' = o.cache
    /\ helpCalls' = helpCalls + 1
    /\ prevHelp' = lastHelp
    /\ lastHelp' = [called |-> TRUE, command |-> command, cwd |-> cwd,
                    result |-> o.result, reqs |-> o.reqs, hit |-> o.hit,
                    raised |-> o.raised]
    /\ UNCHANGED <<uiVars, loopVars, current_model, lastSwitch, execVars, cfgVars>>
\* OllamaHelper.switch_model(model_name) on configuration state st, file f
\* (w: whether a write succeeds) and current model cm; probe is how the health
\* probe ends and tags how the catalog request ends ("badjson": a 2xx answer
\* whose body cannot be used).
SwitchModelOp_AssignFirst(name, st, f, w, cm, probe, tags) ==
    LET set == ConfigSet(st, <<"ai", "model">>, S(name))
        sent == <<Req("tags", probe, <<>>), Req("tags", tags, <<>>)>>
        failed(c, msg, listed, reqs) ==
            [ret |-> FALSE, current_model |-> c, st |-> st, file |-> f,
             listed |-> listed, msg |-> msg, reqs |-> reqs]
    IN  IF ~IsAvailable(probe)
        THEN failed(cm, "Cannot connect to Ollama", <<>>, <<Req("tags", probe, <<>>)>>)
        ELSE IF tags \in {"timeout", "conn", "http"}
        THEN failed(name, "Error connecting to Ollama", <<>>, sent)
        ELSE IF tags # "ok"
        THEN failed(name, "Error switching model", <<>>, sent)
        ELSE IF name \notin Range(Catalog)
        THEN failed(name, "Model not found", Catalog, sent)
        ELSE IF ~set.ok
        THEN failed(name, "Error switching model", <<>>, sent)
        ELSE [ret |-> TRUE, current_model |-> name,
              st |-> [settings |-> set.settings, defaults |-> set.defaults,
                      shared |-> set.shared],
              file |-> SaveConfig(f, w, set.settings),
              listed |-> <<>>, msg |-> "Switched to model", reqs |-> sent]

SwitchModelOp(name, st, f, w, cm, probe, tags) ==
    LET set == ConfigSet(st, <<"ai", "model">>, S(name))
        sent == <<Req("tags", probe, <<>>), Req("tags", tags, <<>>)>>
        failed(c, msg, listed, reqs) ==
            [ret |-> FALSE, current_model |-> c, st |-> st, file |-> f,
             listed |-> listed, msg |-> msg, reqs |-> reqs]
    IN  IF ~IsAvailable(probe)
        THEN failed(cm, "Cannot connect to Ollama", <<>>, <<Req("tags", probe, <<>>)>>)
        ELSE IF tags \in {"timeout", "conn", "http"}
        THEN failed(cm, "Error connecting to Ollama", <<>>, sent)
        ELSE IF tags # "ok"
        THEN failed(cm, "Error switching model", <<>>, sent)
        ELSE IF name \notin Range(Catalog)
        THEN failed(cm, "Model not found", Catalog, sent)
        ELSE IF ~set.ok
        THEN failed(name, "Error switching model", <<>>, sent)
        ELSE [ret |-> TRUE, current_model |-> name,
              st |-> [settings |-> set.settings, defaults |-> set.defaults,
                      shared |-> set.shared],
              file |-> SaveConfig(f, w, set.settings),
              listed |-> <<>>, msg |-> "Switched to model", reqs |-> sent]

(***************************************************************************)
(* CommandRegistry.handle_model_switch (command_registry.py)               *)
(***************************************************************************)


\* CommandRegistry.handle_model_switch(command): the model name is what follows
\* the seven characters of "/model ", stripped. probe1 is how the handler's own
\* health probe ends; probe2 and tags are switch_model's requests. The handler
\* returns True (continue the loop) on every path.
HandleModelSwitchOp(command, st, f, w, cm, probe1, probe2, tags) ==
    LET name == Strip(SubSeq(command, 8, Len(command)))
        sw == SwitchModelOp(name, st, f, w, cm, probe2, tags)
        same(msg, reqs) ==
            [name |-> name, invoked |-> FALSE, ret |-> FALSE, routerRet |-> "continue",
             current_model |-> cm, st |-> st, file |-> f, listed |-> <<>>,
             msg |-> msg, reqs |-> reqs]
    IN  IF name = <<>> THEN same("Usage: /model <model_name>", <<>>)
        ELSE IF ~IsAvailable(probe1)
        THEN same("Ollama not available", <<Req("tags", probe1, <<>>)>>)
        ELSE [name |-> name, invoked |-> TRUE, ret |-> sw.ret, routerRet |-> "continue",
              current_model |-> sw.current_model, st |-> sw.st, file |-> sw.file,
              listed |-> sw.listed, msg |-> sw.msg,
              reqs |-> <<Req("tags", probe1, <<>>)>> \o sw.reqs]

\* The model named by the configuration file on disk (None if it names none).
FileModel(f) ==
    IF f.kind = "json" THEN GetIn(f.val, <<"ai", "model">>, None) ELSE None

\* The three places that hold the selected model.
ModelNow(cm, st, f) ==
    [current_model |-> cm,
     in_memory |-> ConfigGet(st.settings, <<"ai", "model">>, None),
     on_disk |-> FileModel(f)]

NoSwitch ==
    [called |-> FALSE, via |-> "none", name |-> <<>>, invoked |-> FALSE, ret |-> FALSE,
     routerRet |-> "none", listed |-> <<>>, msg |-> "", reqs |-> <<>>,
     before |-> ModelNow(<<>>, [settings |-> <<>>], FileAbsent), fileBefore |-> FileAbsent]

\* The input line `/model <name>` handled by the router.
RouterModel(command, probe1, probe2, tags) ==
    LET o == HandleModelSwitchOp(command, CfgState, file, writable, current_model,
                                 probe1, probe2, tags)
    IN  /\ running
        /\ current_model' = o.current_model
        /\ settings' = o.st.settings
        /\ defaults' = o.st.defaults
        /\ shared' = o.st.shared
        /\ file' = o.file
        /\ lastSwitch' = [called |-> TRUE, via |-> "router", name |-> o.name,
                          invoked |-> o.invoked, ret |-> o.ret,
                          routerRet |-> o.routerRet, listed |-> o.listed,
                          msg |-> o.msg, reqs |-> o.reqs,
                          before |-> ModelNow(current_model, CfgState, file),
                          fileBefore |-> file]
        /\ UNCHANGED <<uiVars, loopVars, readable, writable, running, lastCfg, help_cache, helpCalls,
                       prevHelp, lastHelp, execVars>>

\* The file system starts or stops accepting writes while the process runs.
DiskChanges ==
    /\ running
    /\ writable' = ~writable
    /\ UNCHANGED <<uiVars, loopVars, file, readable, running, defaults, shared, settings, lastCfg,
                   execVars, aiVars>>

AiInit ==
    /\ help_cache = <<>>
    /\ helpCalls = 0
    /\ prevHelp = NoHelp
    /\ lastHelp = NoHelp
    /\ lastSwitch = NoSwitch
(***************************************************************************)
(* OllamaHelper.chat and OllamaHelper.get_error_help (ollama_helper.py)    *)
(***************************************************************************)

\* What a client call that returned a string leaves behind.
Returned(msg, arg, reqs) ==
    [raised |-> FALSE, result |-> [msg |-> msg, arg |-> arg], reqs |-> reqs]

\* What a client call left by an exception leaves behind.
Raised(reqs) == [raised |-> TRUE, result |-> NoText, reqs |-> reqs]

\* chat as it would be without its last `except Exception` clause.
ChatOp_NoCatchAll(message, model, probe, gen) ==
    LET sent == <<Req("tags", probe, <<>>), Req("generate", gen.out, model)>>
        ai == Strip(gen.text)
    IN  IF Strip(message) = <<>>
        THEN Returned("Please provide a message to chat about.", <<>>, <<>>)
        ELSE IF ~IsAvailable(probe)
        THEN Returned("Ollama not available", <<>>, <<Req("tags", probe, <<>>)>>)
        ELSE IF gen.out = "ok"
        THEN IF ai # <<>> THEN Returned("", ai, sent)
             ELSE Returned("No response from AI model", <<>>, sent)
        ELSE IF gen.out = "timeout"
        THEN Returned("Timeout waiting for ", model, sent)
        ELSE IF gen.out \in {"conn", "http"}
        THEN Returned("Error connecting to Ollama: ", <<>>, sent)
        ELSE Raised(sent)

\* OllamaHelper.chat(message) with current model model; probe is how the health
\* probe ends and gen how the completion request ends.
ChatOp(message, model, probe, gen) ==
    LET sent == <<Req("tags", probe, <<>>), Req("generate", gen.out, model)>>
        ai == Strip(gen.text)
    IN  IF Strip(message) = <<>>
        THEN Returned("Please provide a message to chat about.", <<>>, <<>>)
        ELSE IF ~IsAvailable(probe)
        THEN Returned("Ollama not available", <<>>, <<Req("tags", probe, <<>>)>>)
        ELSE IF gen.out = "ok"
        THEN IF ai # <<>> THEN Returned("", ai, sent)
             ELSE Returned("No response from AI model", <<>>, sent)
        ELSE IF gen.out = "timeout"
        THEN Returned("Timeout waiting for ", model, sent)
        ELSE IF gen.out \in {"conn", "http"}
        THEN Returned("Error connecting to Ollama: ", <<>>, sent)
        ELSE Returned("Error in chat: ", <<>>, sent)

\* OllamaHelper.get_error_help(command, error_output): a bare except maps every
\* failure of the completion request to one message.
GetErrorHelpOp(command, model, probe, gen) ==
    LET sent == <<Req("tags", probe, <<>>), Req("generate", gen.out, model)>>
        ai == Strip(gen.text)
    IN  IF ~IsAvailable(probe)
        THEN Returned("Ollama not available for error analysis", <<>>,
                      <<Req("tags", probe, <<>>)>>)
        ELSE IF gen.out = "ok"
        THEN IF ai # <<>> THEN Returned("", ai, sent)
             ELSE Returned("No suggestions available", <<>>, sent)
        ELSE Returned("Error getting AI suggestions", <<>>, sent)

NoAi ==
    [called |-> FALSE, op |-> "none", text |-> <<>>, error_output |-> NoText,
     raised |-> FALSE, avail |-> FALSE, result |-> NoText, reqs |-> <<>>]

AiCall(op, text, error_output, avail, o) ==
    [called |-> TRUE, op |-> op, text |-> text, error_output |-> error_output,
     raised |-> o.raised, avail |-> avail, result |-> o.result, reqs |-> o.reqs]

\* One OllamaHelper.is_available call.
CheckAvailable(probe) ==
    /\ lastAi' = AiCall("is_available", <<>>, NoText, IsAvailable(probe),
                        Returned("", <<>>, <<Req("tags", probe, <<>>)>>))
    /\ UNCHANGED <<uiVars, chat_mode, recent_commands, command_count, looping, lastLoop,
                   execVars, cfgVars, aiVars>>

\* One OllamaHelper.chat call.
Chat(message, probe, gen) ==
    /\ lastAi' = AiCall("chat", message, NoText, IsAvailable(probe),
                        ChatOp(message, current_model, probe, gen))
    /\ UNCHANGED <<uiVars, chat_mode, recent_commands, command_count, looping, lastLoop,
                   execVars, cfgVars, aiVars>>

\* One OllamaHelper.get_error_help call.
GetErrorHelp(command, probe, gen) ==
    /\ lastAi' = AiCall("get_error_help", command, NoText, IsAvailable(probe),
                        GetErrorHelpOp(command, current_model, probe, gen))
    /\ UNCHANGED <<uiVars, chat_mode, recent_commands, command_count, looping, lastLoop,
                   execVars, cfgVars, aiVars>>

(***************************************************************************)
(* AppState (command_registry.py)                                          *)
(***************************************************************************)

NoLoop ==
    [event |-> "none", raw |-> <<>>, line |-> <<>>, modeBefore |-> FALSE,
     histBefore |-> <<>>, countBefore |-> 0, cwdBefore |-> P.home, lecBefore |-> 0,
     dispatch |-> "none", caught |-> "none", handler |-> "none", ret |-> "none",
     reqs |-> <<>>, shell |-> <<>>, msg |-> NoText, probe |-> "none"]

LoopInit ==
    /\ lastAi = NoAi
    /\ chat_mode = FALSE
    /\ recent_commands = <<>>
    /\ command_count = 0
    /\ looping = TRUE
    /\ lastLoop = NoLoop
    /\ pc = [at |-> "input", kind |-> "none", ind |-> 0, outcome |-> "none", n |-> 0]
    /\ indicators = <<>>
    /\ stdout = <<>>

\* AppState.add_command(command): append, drop the oldest past 50 entries.
c_HistoryMax == 50

\* add_command as it would be if it dropped the oldest entry on reaching 50.
AddCommand_DropsAtBound(hist, command) ==
    LET h == Append(hist, command) IN
    IF Len(h) >= c_HistoryMax THEN Tail(h) ELSE h

AddCommand(hist, command) ==
    LET h == Append(hist, command) IN
    IF Len(h) > c_HistoryMax THEN Tail(h) ELSE h

(***************************************************************************)
(* CommandRegistry and ChatHandler (command_registry.py)                   *)
(***************************************************************************)

\* str.lower()
Lower(s) ==
    LET upper == <<"A", "B", "C", "D", "E", "F", "G", "H", "I", "J", "K", "L", "M",
                   "N", "O", "P", "Q", "R", "S", "T", "U", "V", "W", "X", "Y", "Z">>
        lower == <<"a", "b", "c", "d", "e", "f", "g", "h", "i", "j", "k", "l", "m",
                   "n", "o", "p", "q", "r", "s", "t", "u", "v", "w", "x", "y", "z">>
    IN  [i \in DOMAIN s |->
            IF \E k \in DOMAIN upper : upper[k] = s[i]
            THEN lower[CHOOSE k \in DOMAIN upper : upper[k] = s[i]]
            ELSE s[i]]

\* str.endswith(suffix)
EndsWith(s, suffix) ==
    /\ Len(s) >= Len(suffix)
    /\ SubSeq(s, Len(s) - Len(suffix) + 1, Len(s)) = suffix

\* The command names of self.commands and self.chat_commands, and `ls`.
Cmd ==
    [exit |-> <<"e", "x", "i", "t">>,
     slexit |-> <<"/", "e", "x", "i", "t">>,
     help |-> <<"h", "e", "l", "p">>,
     tutorial |-> <<"/", "t", "u", "t", "o", "r", "i", "a", "l">>,
     setup |-> <<"/", "s", "e", "t", "u", "p">>,
     chat |-> <<"/", "c", "h", "a", "t">>,
     clear |-> <<"c", "l", "e", "a", "r">>,
     models |-> <<"/", "m", "o", "d", "e", "l", "s">>,
     config |-> <<"/", "c", "o", "n", "f", "i", "g">>,
     slclear |-> <<"/", "c", "l", "e", "a", "r">>,
     slhelp |-> <<"/", "h", "e", "l", "p">>,
     ls |-> <<"l", "s">>]

\* self.commands: the zero-argument command names and their handlers.
Commands ==
    [name \in {Cmd.slexit, Cmd.exit, Cmd.help, Cmd.tutorial, Cmd.setup, Cmd.chat, Cmd.clear,
               Cmd.models, Cmd.config} |->
        CASE name \in {Cmd.slexit, Cmd.exit} -> "handle_exit"
          [] name = Cmd.help -> "handle_help"
          [] name = Cmd.tutorial -> "handle_tutorial"
          [] name = Cmd.setup -> "handle_setup"
          [] name = Cmd.chat -> "handle_chat"
          [] name = Cmd.clear -> "handle_clear"
          [] name = Cmd.models -> "handle_models"
          [] OTHER -> "handle_config"]

\* self.chat_commands
ChatCommands ==
    [name \in {Cmd.slexit, Cmd.slclear, Cmd.slhelp} |->
        CASE name = Cmd.slexit -> "exit_chat"
          [] name = Cmd.slclear -> "clear_chat"
          [] OTHER -> "help_chat"]

\* The state a handler works on: the session flag, the executor's state, the
\* configuration, the client's model and help cache.
Snapshot ==
    [chat_mode |-> chat_mode, cwd |-> cwd, last_exit_code |-> last_exit_code,
     st |-> CfgState, file |-> file, current_model |-> current_model,
     help_cache |-> help_cache]

\* What a handler leaves behind: the state after it, what it returned ("continue"
\* for True, "terminate" for False, "none" for None), the exception that left
\* it ("none", "error" for an Exception, "eof" for EOFError), its name, the
\* requests it sent, the lines it gave to a shell and what it printed.
\* The records of the get_help, chat / get_error_help, switch_model and execute
\* calls it made are kept in help, ai, switch and exec (called = FALSE: none).
Handled(s, ret, exc, handler, reqs, shell, msg) ==
    [s |-> s, ret |-> ret, exc |-> exc, handler |-> handler, reqs |-> reqs,
     shell |-> shell, msg |-> msg,
     help |-> NoHelp, ai |-> NoAi, switch |-> NoSwitch, exec |-> NoExec]

Say(msg, arg) == [msg |-> msg, arg |-> arg]

\* Below, env is what the rest of the world does during one iteration of the
\* loop: how the requests sent end (probe1: the caller's health probe, probe2:
\* the client's own probe, tags: the catalog request, gen: the completion
\* request), what the shell does (sh), and how a wizard's dialogue goes (wiz).

\* The config.set calls of sets applied in order; a call that raises ends them.
RECURSIVE ApplySets(_, _)
ApplySets(st, sets) ==
    IF sets = <<>> THEN [ok |-> TRUE, st |-> st]
    ELSE LET r == ConfigSet(st, Head(sets).keys, Head(sets).value) IN
         IF ~r.ok THEN [ok |-> FALSE, st |-> st]
         ELSE ApplySets([settings |-> r.settings, defaults |-> r.defaults,
                         shared |-> r.shared], Tail(sets))

\* CommandRegistry.handle_setup: OnboardingWizard.run_setup. wiz says how the
\* dialogue goes: the config.set calls it leads to, the requests the wizard
\* sends, and how it ends ("done": through _finalize_setup, which saves;
\* "stopped": a step returned False; "error" / "eof": an Exception / EOFError
\* leaves the wizard).
SetupOp(s, w, wiz) ==
    LET r == ApplySets(s.st, wiz.sets)
        t == [s EXCEPT !.st = r.st]
    IN  IF ~r.ok THEN Handled(t, "none", "error", "handle_setup", wiz.reqs, <<>>, NoText)
        ELSE IF wiz.end = "done"
        THEN Handled([t EXCEPT !.file = SaveConfig(s.file, w, r.st.settings)],
                     "continue", "none", "handle_setup", wiz.reqs, <<<<"l", "s">>>>, NoText)
        ELSE IF wiz.end = "stopped"
        THEN Handled(t, "continue", "none", "handle_setup", wiz.reqs, <<>>, NoText)
        ELSE Handled(t, "none", wiz.end, "handle_setup", wiz.reqs, <<>>, NoText)

\* CommandRegistry.handle_tutorial: HelpSystem.run_interactive_tutorial prints
\* and waits for Enter; it writes no configuration.
TutorialOp(s, wiz) ==
    IF wiz.end \in {"done", "stopped"}
    THEN Handled(s, "continue", "none", "handle_tutorial", <<>>, <<>>, NoText)
    ELSE Handled(s, "none", wiz.end, "handle_tutorial", <<>>, <<>>, NoText)

\* CommandRegistry.handle_models: the handler's probe, then list_models with
\* its own probe and the catalog request.
ModelsOp(s, env) ==
    LET p1 == <<Req("tags", env.probe1, <<>>)>>
        p2 == p1 \o <<Req("tags", env.probe2, <<>>)>>
        p3 == p2 \o <<Req("tags", env.tags, <<>>)>>
        done(reqs, msg) == Handled(s, "continue", "none", "handle_models", reqs, <<>>,
                                   Say(msg, <<>>))
    IN  IF ~IsAvailable(env.probe1) THEN done(p1, "Ollama not available")
        ELSE IF ~IsAvailable(env.probe2) THEN done(p2, "Error: Cannot connect to Ollama.")
        ELSE IF env.tags = "ok" THEN done(p3, "Installed Ollama models")
        ELSE IF env.tags \in {"timeout", "conn", "http"}
        THEN done(p3, "Error connecting to Ollama")
        ELSE done(p3, "Error listing models")

\* The handler of a zero-argument command.
ExactOp(name, s, w, env) ==
    LET h == Commands[name]
        plain(shell) == Handled(s, "continue", "none", h, <<>>, shell, NoText)
    IN  CASE h = "handle_exit" ->
               Handled(s, "terminate", "none", h, <<>>, <<>>, Say("Goodbye!", <<>>))
          [] h = "handle_help" -> plain(<<>>)
          [] h = "handle_tutorial" -> TutorialOp(s, env.wiz)
          [] h = "handle_setup" -> SetupOp(s, w, env.wiz)
          [] h = "handle_chat" ->
               Handled([s EXCEPT !.chat_mode = ~s.chat_mode], "continue", "none", h,
                       <<>>, <<>>, Say("Entered chat mode", <<>>))
          [] h = "handle_clear" -> plain(<<Cmd.clear>>)
          [] h = "handle_models" -> ModelsOp(s, env)
          [] OTHER -> plain(<<>>)

\* CommandRegistry.handle_model_switch(command), as one of the router's handlers.
ModelSwitchOp(command, s, w, env) ==
    LET o == HandleModelSwitchOp(command, s.st, s.file, w, s.current_model,
                                 env.probe1, env.probe2, env.tags)
        t == [s EXCEPT !.current_model = o.current_model, !.st = o.st, !.file = o.file]
    IN  [Handled(t, "continue", "none", "handle_model_switch", o.reqs, <<>>,
                 Say(o.msg, o.name))
         EXCEPT !.switch = [called |-> TRUE, via |-> "router", name |-> o.name,
                            invoked |-> o.invoked, ret |-> o.ret,
                            routerRet |-> o.routerRet, listed |-> o.listed,
                            msg |-> o.msg, reqs |-> o.reqs,
                            before |-> ModelNow(s.current_model, s.st, s.file),
                            fileBefore |-> s.file]]

\* handle_help_request as it would be without its is_available() test.
HelpRequestOp_NoAvailabilityCheck(command, s, env) ==
    LET name == Strip(SubSeq(command, 1, Len(command) - 1))
        o == GetHelpOp(name, s.cwd, s.help_cache, s.current_model, env.probe2, env.gen)
        h == "handle_help_request"
    IN  IF name = <<>>
        THEN Handled(s, "continue", "none", h, <<>>, <<>>, Say("Usage: <command>?", <<>>))
        ELSE [Handled([s EXCEPT !.help_cache = o.cache], "continue", "none", h,
                      o.reqs, <<>>,
                      IF o.raised THEN Say("Error getting help: ", <<>>) ELSE o.result)
              EXCEPT !.help = [called |-> TRUE, command |-> name, cwd |-> s.cwd,
                               result |-> o.result, reqs |-> o.reqs, hit |-> o.hit,
                               raised |-> o.raised]]

\* CommandRegistry.handle_help_request(command): the command name is the line
\* without its last character, stripped.
HelpRequestOp(command, s, env) ==
    LET name == Strip(SubSeq(command, 1, Len(command) - 1))
        p1 == <<Req("tags", env.probe1, <<>>)>>
        o == GetHelpOp(name, s.cwd, s.help_cache, s.current_model, env.probe2, env.gen)
        h == "handle_help_request"
    IN  IF name = <<>>
        THEN Handled(s, "continue", "none", h, <<>>, <<>>, Say("Usage: <command>?", <<>>))
        ELSE IF ~IsAvailable(env.probe1)
        THEN Handled(s, "continue", "none", h, p1, <<>>,
                     Say("AI not available for help. Try: man ", name))
        ELSE [Handled([s EXCEPT !.help_cache = o.cache], "continue", "none", h,
                      p1 \o o.reqs, <<>>,
                      IF o.raised THEN Say("Error getting help: ", <<>>) ELSE o.result)
              EXCEPT !.help = [called |-> TRUE, command |-> name, cwd |-> s.cwd,
                               result |-> o.result, reqs |-> o.reqs, hit |-> o.hit,
                               raised |-> o.raised]]

\* execute as it would be with the `?` test placed before the prefix test.
RegistryExecuteOp_HelpFirst(command, s, w, env) ==
    IF Lower(command) \in DOMAIN Commands THEN ExactOp(Lower(command), s, w, env)
    ELSE IF EndsWith(command, <<"?">>) THEN HelpRequestOp(command, s, env)
    ELSE IF StartsWith(command, L.model) THEN ModelSwitchOp(command, s, w, env)
    ELSE Handled(s, "none", "none", "none", <<>>, <<>>, NoText)

\* CommandRegistry.execute(command)
RegistryExecuteOp(command, s, w, env) ==
    IF Lower(command) \in DOMAIN Commands THEN ExactOp(Lower(command), s, w, env)
    ELSE IF StartsWith(command, L.model) THEN ModelSwitchOp(command, s, w, env)
    ELSE IF EndsWith(command, <<"?">>) THEN HelpRequestOp(command, s, env)
    ELSE Handled(s, "none", "none", "none", <<>>, <<>>, NoText)

\* ChatHandler.handle_chat_input(user_input): "stay" for True, "leave" for False.
ChatInputOp(user_input, s, env) ==
    LET lower == Lower(user_input)
        p1 == <<Req("tags", env.probe1, <<>>)>>
        o == ChatOp(user_input, s.current_model, env.probe2, env.gen)
    IN  IF lower \in DOMAIN ChatCommands
        THEN IF ChatCommands[lower] = "exit_chat"
             THEN Handled([s EXCEPT !.chat_mode = FALSE], "leave", "none", "exit_chat",
                          <<>>, <<>>, Say("Exited chat mode", <<>>))
             ELSE Handled(s, "stay", "none", ChatCommands[lower], <<>>, <<>>, NoText)
        ELSE IF ~IsAvailable(env.probe1)
        THEN Handled(s, "stay", "none", "chat", p1, <<>>,
                     Say("AI not available for chat mode", <<>>))
        ELSE [Handled(s, "stay", "none", "chat", p1 \o o.reqs, <<>>,
                      IF o.raised THEN Say("Chat error: ", <<>>) ELSE o.result)
              EXCEPT !.ai = AiCall("chat", user_input, NoText, IsAvailable(env.probe2), o)]

(***************************************************************************)
(* main (main.py): one iteration of the interactive loop                   *)
(***************************************************************************)

\* Python truth value of a configuration value.
Truthy(v) == v \notin {None, S(T.false), S(<<>>), D(<<>>), JList}

\* The executor step as it would be if the loop probed the backend before
\* looking at ai.help_on_error.
ExecutorStepOp_ProbesFirst(line, s, env) ==
    LET p1 == <<Req("tags", env.probe1, <<>>)>>
        step(o, g) ==
            LET base(reqs, msg) ==
                    [Handled([s EXCEPT !.cwd = o.cwd,
                                       !.last_exit_code = o.last_exit_code],
                             "none", IF o.raised THEN "error" ELSE "none", "execute",
                             reqs, o.shell, msg)
                     EXCEPT !.exec = [called |-> TRUE, line |-> line,
                                      cwdBefore |-> s.cwd,
                                      lecBefore |-> s.last_exit_code,
                                      raised |-> o.raised, result |-> o.result,
                                      shell |-> o.shell]]
            IN  IF o.raised THEN base(<<>>, Say("Command execution error: ", <<>>))
                ELSE IF o.result.exit_code = 0 THEN base(<<>>, NoText)
                ELSE IF ~IsAvailable(env.probe1) THEN base(p1, NoText)
                ELSE IF ~Truthy(ConfigGet(s.st.settings, <<"ai", "help_on_error">>,
                                          S(T.true)))
                THEN base(p1, NoText)
                ELSE [base(p1 \o g.reqs, g.result)
                      EXCEPT !.ai = AiCall("get_error_help", line, o.result.stderr,
                                          IsAvailable(env.probe2), g)]
    IN  step(ExecuteOp(line, s.cwd, s.last_exit_code, env.sh),
             GetErrorHelpOp(line, s.current_model, env.probe2, env.gen))

\* Lines 181-200: the executor, then failure diagnostics when the exit code is
\* not 0, ai.help_on_error is true and the health probe succeeds.
ExecutorStepOp(line, s, env) ==
    LET p1 == <<Req("tags", env.probe1, <<>>)>>
        step(o, g) ==
            LET base(reqs, msg) ==
                    [Handled([s EXCEPT !.cwd = o.cwd,
                                       !.last_exit_code = o.last_exit_code],
                             "none", IF o.raised THEN "error" ELSE "none", "execute",
                             reqs, o.shell, msg)
                     EXCEPT !.exec = [called |-> TRUE, line |-> line,
                                      cwdBefore |-> s.cwd,
                                      lecBefore |-> s.last_exit_code,
                                      raised |-> o.raised, result |-> o.result,
                                      shell |-> o.shell]]
            IN  IF o.raised THEN base(<<>>, Say("Command execution error: ", <<>>))
                ELSE IF o.result.exit_code = 0 THEN base(<<>>, NoText)
                ELSE IF ~Truthy(ConfigGet(s.st.settings, <<"ai", "help_on_error">>,
                                          S(T.true)))
                THEN base(<<>>, NoText)
                ELSE IF ~IsAvailable(env.probe1) THEN base(p1, NoText)
                ELSE [base(p1 \o g.reqs, g.result)
                      EXCEPT !.ai = AiCall("get_error_help", line, o.result.stderr,
                                          IsAvailable(env.probe2), g)]
    IN  step(ExecuteOp(line, s.cwd, s.last_exit_code, env.sh),
             GetErrorHelpOp(line, s.current_model, env.probe2, env.gen))

\* What one iteration leaves behind: the state, the history and its counter,
\* whether the loop goes on, who got the line ("skip", "interrupted", "chat",
\* "router", "executor"), the exception the loop caught, and the handling.
Iter(s, hist, count, goes, dispatch, caught, h) ==
    [s |-> s, hist |-> hist, count |-> count, looping |-> goes,
     dispatch |-> dispatch, caught |-> caught, h |-> h]

\* Lines 171-200 as they would be if an exception raised by a handler were
\* not caught by the loop.
NormalDispatch_ErrorEndsLoop(user_input, s, hist, count, w, env) ==
    LET executor(e) ==
            Iter(e.s, hist, count, TRUE, "executor",
                 IF e.exc = "error" THEN "Exception" ELSE "none", e)
        routed(r) ==
            IF r.exc = "eof" THEN Iter(r.s, hist, count, FALSE, "router", "EOFError", r)
            ELSE IF r.exc = "error"
            THEN Iter(r.s, hist, count, FALSE, "router", "Exception", r)
            ELSE IF r.ret = "terminate"
            THEN Iter(r.s, hist, count, FALSE, "router", "none", r)
            ELSE IF r.ret = "continue"
            THEN Iter(r.s, hist, count, TRUE, "router", "none", r)
            ELSE executor(ExecutorStepOp(user_input, r.s, env))
    IN  routed(RegistryExecuteOp(user_input, s, w, env))

\* Lines 171-200: a line entered in normal mode goes to the router; the loop
\* ends on the terminate signal, goes on when the router handled the line, and
\* hands the line to the executor when the router returned None. An EOFError
\* raised inside a handler ends the loop (line 210), any other Exception is
\* reported and the loop goes on (line 215).
NormalDispatch(user_input, s, hist, count, w, env) ==
    LET executor(e) ==
            Iter(e.s, hist, count, TRUE, "executor",
                 IF e.exc = "error" THEN "Exception" ELSE "none", e)
        routed(r) ==
            IF r.exc = "eof" THEN Iter(r.s, hist, count, FALSE, "router", "EOFError", r)
            ELSE IF r.exc = "error"
            THEN Iter(r.s, hist, count, TRUE, "router", "Exception", r)
            ELSE IF r.ret = "terminate"
            THEN Iter(r.s, hist, count, FALSE, "router", "none", r)
            ELSE IF r.ret = "continue"
            THEN Iter(r.s, hist, count, TRUE, "router", "none", r)
            ELSE executor(ExecutorStepOp(user_input, r.s, env))
    IN  routed(RegistryExecuteOp(user_input, s, w, env))

\* Lines 163-168 as they would be if a handled chat line went on to the router.
ChatDispatch_FallsThrough(user_input, s, hist, count, w, env) ==
    LET c == ChatInputOp(user_input, s, env) IN
    IF c.ret = "leave" THEN Iter(c.s, hist, count, TRUE, "chat", "none", c)
    ELSE NormalDispatch(user_input, c.s, hist, count, w, env)

\* Lines 163-168 as they would be if False from the chat handler ended the loop.
ChatDispatch_LeaveEndsLoop(user_input, s, hist, count, w, env) ==
    LET c == ChatInputOp(user_input, s, env) IN
    Iter(c.s, hist, count, c.ret # "leave", "chat", "none", c)

\* Lines 163-168: a line entered in chat mode goes to the chat handler, and the
\* loop goes on whatever the handler returns.
ChatDispatch(user_input, s, hist, count, w, env) ==
    LET c == ChatInputOp(user_input, s, env) IN
    Iter(c.s, hist, count, TRUE, "chat", "none", c)

\* The iteration as it would be with add_command placed before the empty test.
MainLineOp_TracksBlank(raw, s, hist, count, w, env, intr) ==
    LET user_input == Strip(raw)
        hist1 == AddCommand(hist, user_input)
        idle == Handled(s, "none", "none", "none", <<>>, <<>>, NoText)
    IN  IF user_input = <<>> THEN Iter(s, hist1, count + 1, TRUE, "skip", "none", idle)
        ELSE IF intr
        THEN Iter([s EXCEPT !.chat_mode = FALSE], hist1, count + 1, TRUE, "interrupted",
                  "KeyboardInterrupt", idle)
        ELSE IF s.chat_mode THEN ChatDispatch(user_input, s, hist1, count + 1, w, env)
        ELSE NormalDispatch(user_input, s, hist1, count + 1, w, env)

\* Lines 153-217 for the input raw: strip, skip an empty line, track the line,
\* dispatch by mode. intr: Ctrl+C arrives after the line is tracked and before
\* its handler has had any effect; the loop's KeyboardInterrupt clause (lines
\* 202-208) leaves chat mode and goes on.
MainLineOp(raw, s, hist, count, w, env, intr) ==
    LET user_input == Strip(raw)
        hist1 == AddCommand(hist, user_input)
        idle == Handled(s, "none", "none", "none", <<>>, <<>>, NoText)
    IN  IF user_input = <<>> THEN Iter(s, hist, count, TRUE, "skip", "none", idle)
        ELSE IF intr
        THEN Iter([s EXCEPT !.chat_mode = FALSE], hist1, count + 1, TRUE, "interrupted",
                  "KeyboardInterrupt", idle)
        ELSE IF s.chat_mode THEN ChatDispatch(user_input, s, hist1, count + 1, w, env)
        ELSE NormalDispatch(user_input, s, hist1, count + 1, w, env)

\* What is kept of one iteration: the state before it, the line, how it was
\* dispatched and handled, and probe: how a health probe sent to the backend
\* during it ends ("none" when no line is handled).
LoopRecord(event, raw, probe, r) ==
    [event |-> event, raw |-> raw, line |-> Strip(raw), modeBefore |-> chat_mode,
     probe |-> probe,
     histBefore |-> recent_commands, countBefore |-> command_count,
     cwdBefore |-> cwd, lecBefore |-> last_exit_code,
     dispatch |-> r.dispatch, caught |-> r.caught, handler |-> r.h.handler,
     ret |-> r.h.ret, reqs |-> r.h.reqs, shell |-> r.h.shell, msg |-> r.h.msg]

\* One iteration of the loop that reads the line raw.
LoopLine(raw, env, intr) ==
    \E r \in {MainLineOp(raw, Snapshot, recent_commands, command_count, writable,
                         env, intr)} :
        /\ running /\ looping
        /\ chat_mode' = r.s.chat_mode
        /\ cwd' = r.s.cwd
        /\ last_exit_code' = r.s.last_exit_code
        /\ settings' = r.s.st.settings
        /\ defaults' = r.s.st.defaults
        /\ shared' = r.s.st.shared
        /\ file' = r.s.file
        /\ current_model' = r.s.current_model
        /\ help_cache' = r.s.help_cache
        /\ recent_commands' = r.hist
        /\ command_count' = r.count
        /\ looping' = r.looping
        /\ lastExec' = IF r.h.exec.called THEN r.h.exec ELSE lastExec
        /\ lastHelp' = IF r.h.help.called THEN r.h.help ELSE lastHelp
        /\ prevHelp' = IF r.h.help.called THEN lastHelp ELSE prevHelp
        /\ helpCalls' = IF r.h.help.called THEN helpCalls + 1 ELSE helpCalls
        /\ lastSwitch' = IF r.h.switch.called THEN r.h.switch ELSE lastSwitch
        /\ lastAi' = IF r.h.ai.called THEN r.h.ai ELSE lastAi
        /\ lastLoop' = LoopRecord("line", raw, env.probe1, r)
        /\ UNCHANGED <<uiVars, readable, writable, running, lastCfg>>

\* Ctrl+C while the loop waits in input(): lines 202-208.
LoopCtrlC ==
    LET idle == Handled(Snapshot, "none", "none", "none", <<>>, <<>>, NoText) IN
    /\ running /\ looping
    /\ chat_mode' = FALSE
    /\ lastLoop' = LoopRecord("interrupt", <<>>, "none",
                      Iter(Snapshot, recent_commands, command_count, TRUE,
                           "interrupted", "KeyboardInterrupt", idle))
    /\ UNCHANGED <<uiVars, recent_commands, command_count, looping, lastAi, execVars, cfgVars,
                   aiVars>>

\* End of input while the loop waits in input(): lines 210-213.
LoopEof ==
    LET idle == Handled(Snapshot, "none", "none", "none", <<>>, <<>>, NoText) IN
    /\ running /\ looping
    /\ looping' = FALSE
    /\ lastLoop' = LoopRecord("eof", <<>>, "none",
                      Iter(Snapshot, recent_commands, command_count, FALSE,
                           "skip", "EOFError", idle))
    /\ UNCHANGED <<uiVars, chat_mode, recent_commands, command_count, lastAi, execVars, cfgVars,
                   aiVars>>

\* One CommandRegistry.execute call made directly.
RegistryExecute(command, env) ==
    \E h \in {RegistryExecuteOp(command, Snapshot, writable, env)} :
        /\ running
        /\ chat_mode' = h.s.chat_mode
        /\ settings' = h.s.st.settings
        /\ defaults' = h.s.st.defaults
        /\ shared' = h.s.st.shared
        /\ file' = h.s.file
        /\ current_model' = h.s.current_model
        /\ help_cache' = h.s.help_cache
        /\ lastHelp' = IF h.help.called THEN h.help ELSE lastHelp
        /\ prevHelp' = IF h.help.called THEN lastHelp ELSE prevHelp
        /\ helpCalls' = IF h.help.called THEN helpCalls + 1 ELSE helpCalls
        /\ lastSwitch' = IF h.switch.called THEN h.switch ELSE lastSwitch
        /\ lastLoop' = LoopRecord("router", command, env.probe1,
                          Iter(h.s, recent_commands, command_count, TRUE, "router",
                               IF h.exc = "error" THEN "Exception"
                               ELSE IF h.exc = "eof" THEN "EOFError" ELSE "none", h))
        /\ UNCHANGED <<uiVars, readable, writable, running, lastCfg, recent_commands,
                       command_count, looping, lastAi, execVars>>

(***************************************************************************)
(* Specifications                                                          *)
(***************************************************************************)

\* A process whose Config() loaded file f (w: whether writes succeed) and whose
\* OllamaHelper took its model from it (ollama_helper.py line 23).
StartedFrom(f, w) ==
    LET r == LoadConfig(f, TRUE, w, DefaultConfig) IN
    /\ ~r.raised
    /\ readable = TRUE
    /\ writable = w
    /\ running = TRUE
    /\ defaults = DefaultConfig
    /\ shared = r.shared
    /\ settings = r.settings
    /\ file = r.file
    /\ lastCfg = CfgOp("load", FALSE, <<>>, None, None, f, NoPrevLoad)
    /\ current_model = ConfigGet(r.settings, <<"ai", "model">>, S(T.llama2)).s

\* --- the executor alone ---
InitExec == ExecInit /\ StartedFrom(FileAbsent, TRUE) /\ AiInit /\ LoopInit

NextExec == \E line \in ExecLines, sh \in ShellOutcomes : Execute(line, sh)

SpecExec == InitExec /\ [][NextExec]_vars

\* --- the configuration store over process runs ---
InitConfig == ExecInit /\ CfgInit /\ AiInit /\ LoopInit /\ current_model = T.llama2

NextConfig ==
    \/ Start
    \/ \E keys \in SetKeys, value \in SetValues : CfgSet(keys, value)
    \/ \E keys \in SetKeys \cup {<<"ai", "enabled">>} : CfgGet(keys)
    \/ CfgSave
    \/ CfgReset
    \/ Exit
    \/ \E f \in UserFiles : UserWritesFile(f)
    \/ \E r \in BOOLEAN, w \in BOOLEAN : SetPermissions(r, w)

SpecConfig == InitConfig /\ [][NextConfig]_vars

\* --- model switching through the router ---
SwitchFiles ==
    {FileAbsent,
     FileJson(D([ai |-> D([model |-> S(T.mistral)])])),
     FileJson(D([ai |-> S(<<"off">>)]))}

\* The `/model ...` lines typed.
ModelLines ==
    {L.model \o T.mistral, L.model \o T.llama2, L.model \o T.mystery,
     L.model \o <<" ">> \o T.mistral \o <<" ">>, L.model \o <<" ">>}

TagsOutcomes == ProbeOutcomes \cup {"badjson"}

InitSwitch ==
    /\ ExecInit
    /\ \E f \in SwitchFiles, w \in BOOLEAN : StartedFrom(f, w)
    /\ AiInit /\ LoopInit

NextSwitch ==
    \/ \E command \in ModelLines, probe1 \in {"ok", "conn"}, probe2 \in {"ok", "timeout"},
          tags \in {"ok", "http", "badjson"} : RouterModel(command, probe1, probe2, tags)
    \/ DiskChanges

SpecSwitch == InitSwitch /\ [][NextSwitch]_vars

\* --- help requests from two directories ---
MaxRepeatCalls == 3

HelpCommands == {<<"l", "s">>, <<" ">>, <<"l", "s", "_", "/", "b">>}

\* How the completion request can end: a 2xx answer with its "response" text, a
\* timeout, a connection failure, a non-2xx status, a body that is not JSON.
GenOutcomes ==
    {[out |-> "ok", text |-> t] : t \in {<<"t", "1">>, <<"t", "2">>, <<" ">>}}
    \cup {[out |-> o, text |-> <<>>] : o \in {"timeout", "http", "badjson"}}

HelpCdLines == {L.cdsp \o P.a, L.cdhome, L.cdsp \o P.ua}

NextHelp ==
    \/ /\ helpCalls < MaxRepeatCalls
       /\ \E command \in HelpCommands, probe \in {"ok", "conn"}, gen \in GenOutcomes :
              GetHelp(command, probe, gen)
    \/ \E line \in HelpCdLines : Execute(line, CHOOSE sh \in ShellOutcomes : ~sh.launched)

SpecHelp == InitExec /\ [][NextHelp]_vars

\* --- many distinct help requests ---
MaxHelpCalls == 24
MaxCmds == 22

Letters == <<"a", "b", "c", "d", "e">>

\* The i-th of the distinct commands asked about.
HelpCmd(i) ==
    <<Letters[((i - 1) \div Len(Letters)) + 1], Letters[((i - 1) % Len(Letters)) + 1]>>

\* Commands are first asked about in the order HelpCmd(1), HelpCmd(2), ...: the
\* next one not asked about yet follows the highest one cached.
NextFresh ==
    LET cached == {i \in 1..MaxCmds : CacheHas(help_cache, HelpKey(HelpCmd(i), cwd))} IN
    IF cached = {} THEN 1
    ELSE 1 + CHOOSE i \in cached : \A j \in cached : j <= i

NextCache ==
    /\ helpCalls < MaxHelpCalls
    /\ \E i \in 1..MaxCmds, probe \in {"ok", "conn"},
          gen \in {[out |-> "ok", text |-> <<"t", "1">>], [out |-> "timeout", text |-> <<>>]} :
           /\ i \in {1, NextFresh}
           /\ GetHelp(HelpCmd(i), probe, gen)

SpecCache == InitExec /\ [][NextCache]_vars

\* The client's operations on a command or message that is text or blank, with
\* a completion request that is answered (with text or with a blank) or fails.
NextClient ==
    LET texts == {<<"l", "s">>, <<" ">>}
        gens == {[out |-> "ok", text |-> x] : x \in {<<"t", "1">>, <<" ">>}}
                \cup {[out |-> o, text |-> <<>>] :
                         o \in {"timeout", "conn", "http", "badjson"}}
    IN  \/ \E probe \in ProbeOutcomes : CheckAvailable(probe)
        \/ \E message \in texts, probe \in ProbeOutcomes, gen \in gens :
               Chat(message, probe, gen)
        \/ \E command \in texts, probe \in ProbeOutcomes, gen \in gens :
               GetErrorHelp(command, probe, gen)
        \/ \E command \in texts, probe \in ProbeOutcomes, gen \in gens :
               /\ helpCalls < MaxRepeatCalls
               /\ GetHelp(command, probe, gen)

SpecClient == InitExec /\ [][NextClient]_vars

\* --- the router and the interactive loop ---
\* How the dialogue of a wizard can go: through to the end with a model chosen,
\* stopped after AI was switched off, stopped at once, left by an Exception,
\* left by EOFError.
WizardOutcomes ==
    {[end |-> "done",
      sets |-> <<[keys |-> <<"ai", "model">>, value |-> S(T.mistral)],
                 [keys |-> <<"ai", "enabled">>, value |-> S(T.true)],
                 [keys |-> <<"terminal", "history_size">>, value |-> S(<<"5", "0", "0">>)],
                 [keys |-> <<"ai", "help_on_error">>, value |-> S(T.false)]>>,
      reqs |-> <<Req("tags", "ok", <<>>), Req("tags", "ok", <<>>)>>],
     [end |-> "stopped",
      sets |-> <<[keys |-> <<"ai", "enabled">>, value |-> S(T.false)]>>,
      reqs |-> <<Req("tags", "conn", <<>>)>>],
     [end |-> "stopped", sets |-> <<>>, reqs |-> <<>>],
     [end |-> "error", sets |-> <<>>, reqs |-> <<>>],
     [end |-> "eof", sets |-> <<>>, reqs |-> <<>>]}

\* Everything answers: the backend, a shell command that exits with 0, a
\* wizard the user stops at once.
E_calm ==
    [probe1 |-> "ok", probe2 |-> "ok", tags |-> "ok",
     gen |-> [out |-> "ok", text |-> <<"t", "1">>],
     sh |-> CHOOSE sh \in ShellOutcomes : sh.launched /\ sh.returncode = 0,
     wiz |-> [end |-> "stopped", sets |-> <<>>, reqs |-> <<>>]]

\* The backend up or down, a flaky backend, a failing shell, the wizards.
LoopEnvs ==
    LET failed == CHOOSE sh \in ShellOutcomes : sh.launched /\ sh.returncode = 127
        nolaunch == CHOOSE sh \in ShellOutcomes : ~sh.launched
    IN  {[E_calm EXCEPT !.probe1 = p1, !.probe2 = p2] :
            p1 \in {"ok", "conn"}, p2 \in {"ok", "timeout"}}
        \cup {[E_calm EXCEPT !.tags = tg, !.gen = [out |-> g, text |-> <<>>],
                             !.sh = failed] :
                 tg \in {"http", "badjson"}, g \in {"timeout", "badjson"}}
        \cup {[E_calm EXCEPT !.probe1 = p1, !.sh = sh] :
                 p1 \in {"ok", "conn"}, sh \in {failed, nolaunch}}
        \cup {[E_calm EXCEPT !.wiz = w] : w \in WizardOutcomes}

InitRouter ==
    /\ ExecInit
    /\ \E f \in SwitchFiles : StartedFrom(f, TRUE)
    /\ AiInit /\ LoopInit

\* CommandRegistry.execute called on lines of every kind, with the backend up
\* or down.
NextRouter ==
    /\ helpCalls < MaxRepeatCalls
    /\ \E command \in
           {Cmd.exit, <<"E", "X", "I", "T">>, <<"/", "E", "x", "i", "t">>, Cmd.help,
            <<"H", "e", "l", "p", "?">>, Cmd.chat, Cmd.models, Cmd.config, Cmd.clear, Cmd.setup,
            Cmd.tutorial, L.model \o T.mistral, L.model \o T.mystery \o <<"?">>,
            <<"/", "M", "O", "D", "E", "L", " ">> \o T.mistral, L.model,
            <<"/", "m", "o", "d", "e", "l">>, Cmd.ls \o <<"?">>, <<"?">>, Cmd.ls,
            Cmd.exit \o <<"?">>},
          env \in {E_calm, [E_calm EXCEPT !.probe1 = "conn"]} :
           RegistryExecute(command, env)

SpecRouter == InitRouter /\ [][NextRouter]_vars

MaxLoopSteps == 2

\* The loop reading lines of every kind at the prompt, under every
\* environment, with Ctrl+C and end-of-input.
NextLoop ==
    \/ /\ command_count < MaxLoopSteps
       /\ \E raw \in
              {<<"E", "X", "I", "T">>, <<"/", "E", "x", "i", "t">>, Cmd.chat, Cmd.slclear,
               Cmd.ls \o <<"?">>, Cmd.ls, L.cdsp \o P.a, L.cdsp \o <<"'">> \o P.a, Cmd.setup,
               L.model \o T.mistral, <<" ", " ">>} :
              \/ \E env \in LoopEnvs : LoopLine(raw, env, FALSE)
              \/ LoopLine(raw, E_calm, TRUE)
    \/ LoopCtrlC
    \/ LoopEof

SpecLoop == InitExec /\ [][NextLoop]_vars

(***************************************************************************)
(* AppState alone: a long session of add_command and toggle_chat_mode      *)
(***************************************************************************)

MaxAdds == 53

\* The text of the n-th command of the session; distinct for distinct n.
HistCmd(n) ==
    HelpCmd(((n - 1) % (Len(Letters) * Len(Letters))) + 1)
        \o <<Letters[((n - 1) \div (Len(Letters) * Len(Letters))) + 1]>>

\* One AppState.add_command call.
AppAddCommand(command) ==
    /\ recent_commands' = AddCommand(recent_commands, command)
    /\ command_count' = command_count + 1
    /\ UNCHANGED <<uiVars, chat_mode, looping, lastLoop, lastAi, execVars, cfgVars, aiVars>>

\* One AppState.toggle_chat_mode call.
AppToggleChatMode ==
    /\ chat_mode' = ~chat_mode
    /\ UNCHANGED <<uiVars, recent_commands, command_count, looping, lastLoop, lastAi,
                   execVars, cfgVars, aiVars>>

NextHistory ==
    \/ command_count < MaxAdds /\ AppAddCommand(HistCmd(command_count + 1))
    \/ AppToggleChatMode

SpecHistory == InitExec /\ [][NextHistory]_vars

(***************************************************************************)
(* The spinner thread around a help or chat request (ui_utils.py           *)
(* LoadingIndicator; command_registry.py handle_help_request and           *)
(* handle_chat_input; main.py lines 202-208)                               *)
(***************************************************************************)

MaxRequests == 2
MaxFrames == 1

\* One write to the terminal: what is written and, for a spinner frame, the
\* line clearing of stop() and the result of a request, the indicator it
\* belongs to (0: the request had none).
Wrote(what, ind) == [what |-> what, ind |-> ind]

\* thread.join() as it would be if it did not wait.
Joined_NoWait(ind) == TRUE

\* thread.join() in LoadingIndicator.stop returns once _animate has returned.
Joined(ind) == ind.thread = "done"

\* One step of the thread of indicator i, LoadingIndicator._animate: the test
\* of is_running after a sleep of any length, or the write of one frame.
Animate(i) ==
    /\ i \in DOMAIN indicators
    /\ \/ /\ indicators[i].thread = "check"
          /\ IF ~indicators[i].is_running
             THEN indicators' = [indicators EXCEPT ![i].thread = "done"]
             ELSE /\ Cardinality({j \in DOMAIN stdout :
                                     stdout[j].what = "frame"}) < MaxFrames
                  /\ indicators' = [indicators EXCEPT ![i].thread = "write"]
          /\ UNCHANGED stdout
       \/ /\ indicators[i].thread = "write"
          /\ stdout' = Append(stdout, Wrote("frame", i))
          /\ indicators' = [indicators EXCEPT ![i].thread = "check"]
    /\ UNCHANGED <<pc, loopVars, execVars, cfgVars, aiVars>>

\* The handler of `<command>?` (in normal mode) or of a chat line (in chat
\* mode) up to the blocking client call: the health probe, and the start of a
\* LoadingIndicator unless the help text is cached.
RequestStart(command, probe) ==
    LET kind == IF chat_mode THEN "chat" ELSE "help"
        spin == chat_mode \/ ~CacheHas(help_cache, HelpKey(command, cwd))
        new == Len(indicators) + 1
    IN  /\ pc.at = "input" /\ pc.n < MaxRequests
        /\ IF ~IsAvailable(probe)
           THEN /\ stdout' = Append(stdout, Wrote("warning", 0))
                /\ pc' = [pc EXCEPT !.n = pc.n + 1]
                /\ UNCHANGED indicators
           ELSE /\ pc' = [at |-> "request", kind |-> kind,
                          ind |-> IF spin THEN new ELSE 0, outcome |-> "none",
                          n |-> pc.n + 1]
                /\ indicators' =
                       IF spin
                       THEN Append(indicators,
                                   [is_running |-> TRUE, thread |-> "check",
                                    message |-> IF chat_mode THEN "Thinking"
                                                ELSE "Getting help"])
                       ELSE indicators
                /\ UNCHANGED stdout
        /\ UNCHANGED <<loopVars, execVars, cfgVars, aiVars>>

\* The client call of the request ends: get_help or chat returns (outcome
\* "returned", with the call's effect on the client) or an Exception leaves
\* it (outcome "exception"); the handler then enters indicator.stop(), which
\* returns at once without a running indicator and otherwise clears is_running
\* and waits in join.
RequestEnds(command, outcome, probe, gen) ==
    LET o == GetHelpOp(command, cwd, help_cache, current_model, probe, gen)
        spinning == pc.ind # 0 /\ indicators[pc.ind].is_running
    IN  /\ pc.at = "request"
        /\ pc' = [pc EXCEPT !.at = IF spinning THEN "join" ELSE "print",
                            !.outcome = outcome]
        /\ indicators' = IF spinning
                         THEN [indicators EXCEPT ![pc.ind].is_running = FALSE]
                         ELSE indicators
        /\ IF outcome = "returned" /\ pc.kind = "help"
           THEN /\ help_cache' = o.cache
                /\ helpCalls' = helpCalls + 1
                /\ prevHelp' = lastHelp
                /\ lastHelp' = [called |-> TRUE, command |-> command, cwd |-> cwd,
                                result |-> o.result, reqs |-> o.reqs, hit |-> o.hit,
                                raised |-> o.raised]
           ELSE UNCHANGED <<help_cache, helpCalls, prevHelp, lastHelp>>
        /\ lastAi' = IF outcome = "returned" /\ pc.kind = "chat"
                     THEN AiCall("chat", command, NoText, IsAvailable(probe),
                                 ChatOp(command, current_model, probe, gen))
                     ELSE lastAi
        /\ UNCHANGED <<stdout, chat_mode, recent_commands, command_count, looping,
                       lastLoop, current_model, lastSwitch, execVars, cfgVars>>

\* thread.join() returns and stop() clears the line.
StopJoins ==
    /\ pc.at = "join"
    /\ Joined(indicators[pc.ind])
    /\ stdout' = Append(stdout, Wrote("clear", pc.ind))
    /\ pc' = [pc EXCEPT !.at = "print"]
    /\ UNCHANGED <<indicators, loopVars, execVars, cfgVars, aiVars>>

\* The handler prints the response or the error message and returns to the
\* loop, which goes back to input().
PrintResult ==
    /\ pc.at = "print"
    /\ stdout' = Append(stdout, Wrote(IF pc.outcome = "returned" THEN "response"
                                       ELSE "error", pc.ind))
    /\ pc' = [pc EXCEPT !.at = "input", !.kind = "none", !.ind = 0,
                        !.outcome = "none"]
    /\ UNCHANGED <<indicators, loopVars, execVars, cfgVars, aiVars>>

\* Ctrl+C while the main thread is inside the request: KeyboardInterrupt is no
\* Exception, so it leaves the handler without passing its except clause and
\* reaches the loop (main.py lines 202-208), which prints ^C, leaves chat mode
\* and goes back to input().
RequestInterrupted ==
    /\ pc.at \in {"request", "join", "print"}
    /\ stdout' = Append(stdout, Wrote("^C", 0))
    /\ chat_mode' = FALSE
    /\ pc' = [pc EXCEPT !.at = "input", !.kind = "none", !.ind = 0,
                        !.outcome = "none"]
    /\ UNCHANGED <<indicators, recent_commands, command_count, looping, lastLoop,
                   lastAi, execVars, cfgVars, aiVars>>

NextSpinner ==
    \/ \E i \in 1..MaxRequests : Animate(i)
    \/ \E probe \in {"ok", "conn"} : RequestStart(HelpCmd(1), probe)
    \/ \E outcome \in {"returned", "exception"} :
           RequestEnds(HelpCmd(1), outcome, "ok", [out |-> "ok", text |-> <<"t", "1">>])
    \/ StopJoins
    \/ PrintResult
    \/ RequestInterrupted
    \/ pc.at = "input" /\ AppToggleChatMode

SpecSpinner == InitExec /\ [][NextSpinner]_vars
(***************************************************************************)
(* Claims                                                                  *)
(***************************************************************************)

\* A line of the form `cd <path>`: it starts with "cd ", tokenises, and has
\* exactly one argument.
WellFormedCd(line) ==
    /\ StartsWith(line, L.cdsp)
    /\ ShlexSplit(line).ok
    /\ Len(ShlexSplit(line).toks) = 2

\* The path of a `cd <path>` line after quote-aware tokenisation, then ~
\* expansion, then environment-variable expansion.
CdPath(line) == ExpandVars(ExpandUser(ShlexSplit(line).toks[2]))

\* What the operating system answers for entering that path from the working
\* directory the call started in.
CdLookup == Chdir(lastExec.cwdBefore, CdPath(lastExec.line))

\* C1: after execute of a well-formed `cd <path>` whose resolved path is an
\* existing accessible directory, the working directory is that directory, the
\* call returned a result with exit code 0 and the last exit code is 0.
C1_CdExistingDir ==
    (lastExec.called /\ WellFormedCd(lastExec.line) /\ CdLookup.err = "ok")
        => /\ ~lastExec.raised
           /\ cwd = CdLookup.path
           /\ CdLookup.path \in Dirs \ NoAccess
           /\ lastExec.result.exit_code = 0
           /\ last_exit_code = 0

\* `cd $V/b` entered from the home directory after a failed command: the
\* process is in /a/b and the stored exit code went from non-zero to 0.
C1_Witness ==
    /\ lastExec.called
    /\ lastExec.line = L.cdsp \o <<"$", "V", "/", "b">>
    /\ lastExec.cwdBefore = P.home
    /\ lastExec.lecBefore # 0
    /\ cwd = P.ab
    /\ last_exit_code = 0

\* C2: after execute of a `cd <path>` whose resolved path does not exist, the
\* working directory is the one the call started in, the call returned a result
\* with exit code 1 and the last exit code is 1.
C2_CdMissingDir ==
    (lastExec.called /\ WellFormedCd(lastExec.line) /\ CdLookup.err = "ENOENT")
        => /\ ~lastExec.raised
           /\ cwd = lastExec.cwdBefore
           /\ lastExec.result.exit_code = 1
           /\ last_exit_code = 1

\* `cd /zz` entered in /a after a successful command: still in /a, exit code 1.
C2_Witness ==
    /\ lastExec.called
    /\ lastExec.line = L.cdsp \o P.zz
    /\ lastExec.cwdBefore = P.a
    /\ lastExec.lecBefore = 0
    /\ cwd = P.a
    /\ last_exit_code = 1
\* Every request of a list of requests was answered with 2xx.
AllAnswered(reqs) == \A i \in DOMAIN reqs : reqs[i].out = "ok"

\* C3: two successive get_help calls with the same command and working
\* directory, the first of which fetched help text from a backend that answers
\* every request, send one request in total; the second sends none and returns
\* the text the first returned.
C3_SecondHelpWithoutNetwork ==
    (/\ prevHelp.called /\ lastHelp.called
     /\ prevHelp.command = lastHelp.command
     /\ prevHelp.cwd = lastHelp.cwd
     /\ ~prevHelp.hit
     /\ prevHelp.result.msg = "bulb "
     /\ AllAnswered(prevHelp.reqs) /\ AllAnswered(lastHelp.reqs))
        => /\ Len(prevHelp.reqs) + Len(lastHelp.reqs) = 1
           /\ lastHelp.reqs = <<>>
           /\ lastHelp.result = prevHelp.result

\* C4: when switch_model returns True the client's current_model, the
\* in-memory ai.model and the ai.model on disk all equal the requested name;
\* when it returns False none of the three has changed.
C4_SwitchAllOrNothing ==
    (lastSwitch.called /\ lastSwitch.invoked)
        => LET now == ModelNow(current_model, CfgState, file)
               wanted == [current_model |-> lastSwitch.name,
                          in_memory |-> S(lastSwitch.name),
                          on_disk |-> S(lastSwitch.name)]
           IN  IF lastSwitch.ret THEN now = wanted ELSE now = lastSwitch.before

\* C5: after the line `/model <name>` with a name the catalog does not hold,
\* current_model, the in-memory ai.model and the configuration file are what
\* they were, the router returned the continue signal, and, the backend having
\* answered the handler's requests, the names listed are the catalog's.
C5_UnknownModelRejected ==
    (/\ lastSwitch.called /\ lastSwitch.via = "router"
     /\ lastSwitch.name # <<>>
     /\ lastSwitch.name \notin Range(Catalog))
        => /\ ModelNow(current_model, CfgState, file) = lastSwitch.before
           /\ file = lastSwitch.fileBefore
           /\ lastSwitch.routerRet = "continue"
           /\ ~lastSwitch.ret
           /\ (Len(lastSwitch.reqs) > 1 /\ AllAnswered(lastSwitch.reqs))
                  => lastSwitch.listed = Catalog

\* `/model gpt` with the backend up: both catalog names were listed and the
\* model is still the default one.
C5_Witness ==
    /\ lastSwitch.called /\ lastSwitch.via = "router"
    /\ lastSwitch.name = T.mystery
    /\ lastSwitch.invoked
    /\ lastSwitch.listed = <<T.llama2, T.mistral>>
    /\ lastSwitch.routerRet = "continue"
    /\ current_model = T.llama2
    /\ FileModel(file) = S(T.llama2)

\* C6: after a load of a file holding a JSON object, every dotted key of the
\* compiled-in defaults resolves through get to a value.
C6_DefaultKeysResolve ==
    (/\ lastCfg.op = "load" /\ ~lastCfg.raised /\ lastCfg.readable
     /\ lastCfg.fileBefore.kind = "json" /\ IsDict(lastCfg.fileBefore.val))
        => \A path \in DefaultPaths : ConfigGet(settings, path, None) # None

\* C7: set(path, v) does not raise, and get(path) then returns v.
C7_SetThenGet ==
    lastCfg.op = "set"
        => /\ ~lastCfg.raised
           /\ ConfigGet(settings, lastCfg.keys, None) = lastCfg.value

\* A configuration file with nothing in it: zero bytes, or the empty object.
EmptyFiles == {FileEmpty, FileJson(D(<<>>))}

\* C8: a load of an empty configuration file (writes to the file succeeding)
\* yields the compiled-in defaults as settings and leaves exactly the defaults
\* in the file; the load that follows it yields the same settings and leaves
\* the file as it found it.
C8_EmptyFileLoadsDefaults ==
    /\ (lastCfg.op = "load" /\ lastCfg.fileBefore \in EmptyFiles /\ lastCfg.writable)
           => /\ ~lastCfg.raised
              /\ settings = DefaultConfig
              /\ file = FileJson(D(DefaultConfig))
    /\ (/\ lastCfg.op = "load" /\ lastCfg.prev.valid /\ lastCfg.writable
        /\ lastCfg.prev.fileBefore \in EmptyFiles)
           => /\ ~lastCfg.raised
              /\ settings = lastCfg.prev.settings
              /\ settings = DefaultConfig
              /\ file = lastCfg.fileBefore
              /\ file = lastCfg.prev.file

\* Two loads in a row, the first of a zero-byte file: the second found the
\* defaults on disk and returned the defaults.
C8_Witness ==
    /\ lastCfg.op = "load" /\ lastCfg.prev.valid /\ lastCfg.writable
    /\ lastCfg.prev.fileBefore = FileEmpty
    /\ lastCfg.fileBefore = FileJson(D(DefaultConfig))
    /\ settings = DefaultConfig
    /\ file = FileJson(D(DefaultConfig))

\* C9: a load of a file that is not valid JSON, is JSON but not an object, or
\* cannot be read does not raise, yields the compiled-in defaults and (writes
\* succeeding) leaves the defaults in the file.
C9_BadFileTreatedAsAbsent ==
    (/\ lastCfg.op = "load"
     /\ \/ lastCfg.fileBefore.kind \in {"empty", "garbage"}
        \/ lastCfg.fileBefore.kind = "json" /\ ~IsDict(lastCfg.fileBefore.val)
        \/ lastCfg.fileBefore.kind # "absent" /\ ~lastCfg.readable)
        => /\ ~lastCfg.raised
           /\ settings = DefaultConfig
           /\ lastCfg.writable => file = FileJson(D(DefaultConfig))

\* C10: whenever get_help has returned, the help cache holds at most 20 entries.
C10_CacheBounded == Len(help_cache) <= c_HelpCacheMax

\* More than 20 distinct commands were answered and cached: the cache is full,
\* the first command's entry is gone and the last call inserted an entry.
C10_Witness ==
    /\ helpCalls > c_HelpCacheMax
    /\ Len(help_cache) = c_HelpCacheMax
    /\ ~CacheHas(help_cache, HelpKey(HelpCmd(1), cwd))
    /\ lastHelp.called /\ ~lastHelp.hit /\ lastHelp.result.msg = "bulb "
    /\ help_cache[Len(help_cache)].key = HelpKey(lastHelp.command, lastHelp.cwd)
\* C16: an execute call on an empty or whitespace-only line returns a result
\* with empty stdout, empty stderr and exit code 0, hands nothing to the shell,
\* and leaves the working directory and the stored exit code as they were.
C16_EmptyLineNoOp ==
    (lastExec.called /\ Strip(lastExec.line) = <<>>)
        => /\ ~lastExec.raised
           /\ lastExec.result = CommandResult(NoText, NoText, 0)
           /\ lastExec.shell = <<>>
           /\ cwd = lastExec.cwdBefore
           /\ last_exit_code = lastExec.lecBefore

\* A whitespace-only line entered in /a after a failed cd: the stored exit
\* code is still 1.
C16_Witness ==
    /\ lastExec.called
    /\ lastExec.line = <<" ", " ">>
    /\ lastExec.result.exit_code = 0
    /\ cwd = P.a
    /\ last_exit_code = 1

\* C17 (as stated): after an execute call that returned, the stored exit code
\* is the exit code of the result it returned.
C17_ExitCodeOfLastResult ==
    (lastExec.called /\ ~lastExec.raised)
        => last_exit_code = lastExec.result.exit_code

\* C17 (amended): an execute call that returns a result for a non-blank line
\* stores that result's exit code; every other execute call (a blank line, a
\* call that returns no result) leaves the stored exit code as it was.
C17_ExitCodeOfLastNonBlank ==
    lastExec.called
        => IF ~lastExec.raised /\ Strip(lastExec.line) # <<>>
           THEN last_exit_code = lastExec.result.exit_code
           ELSE last_exit_code = lastExec.lecBefore

\* An empty line entered after a shell command that ended with 127: the result
\* says 0, the stored exit code is still 127.
C17_Witness ==
    /\ lastExec.called
    /\ lastExec.line = <<>>
    /\ lastExec.result.exit_code = 0
    /\ lastExec.lecBefore = 127
    /\ last_exit_code = 127

\* A line execute treats as cd: it starts with "cd " or is "cd" between blanks.
CdAttempt(line) ==
    /\ Strip(line) # <<>>
    /\ StartsWith(line, L.cdsp) \/ Strip(line) = L.cd

\* Whether the cd line's target cannot be entered from wd: the line does not
\* tokenise, or os.chdir on the expanded argument fails.
CdFails(line, wd) ==
    LET command == IF StartsWith(line, L.cdsp) THEN line ELSE L.cdhome
        sp == ShlexSplit(command)
        raw == IF Len(sp.toks) < 2 THEN ExpandUser(<<"~">>) ELSE sp.toks[2]
    IN  ~sp.ok \/ Chdir(wd, ExpandVars(ExpandUser(raw))).err # "ok"

\* C19: an execute call on a cd line whose target cannot be entered (missing,
\* permission denied, other OS error, or the line does not tokenise) returns
\* without raising a result with exit code 1 and an error message, stores exit
\* code 1 and leaves the working directory unchanged.
C19_FailedCdReported ==
    (lastExec.called /\ CdAttempt(lastExec.line)
        /\ CdFails(lastExec.line, lastExec.cwdBefore))
        => /\ ~lastExec.raised
           /\ lastExec.result.exit_code = 1
           /\ lastExec.result.stderr # NoText
           /\ last_exit_code = 1
           /\ cwd = lastExec.cwdBefore

\* C14: no client operation is left by an exception; is_available returns
\* False whenever its request failed, and get_help, chat and get_error_help
\* return a non-empty message whenever one of their requests failed.
C14_ClientCatchesTransportFailures ==
    LET SomeFailed(reqs) == \E i \in DOMAIN reqs : reqs[i].out # "ok"
        IsMessage(m) == m.msg # "" \/ m.arg # <<>>
    IN
    /\ lastAi.called
           => /\ ~lastAi.raised
              /\ (lastAi.op = "is_available" /\ SomeFailed(lastAi.reqs)) => ~lastAi.avail
              /\ (lastAi.op \in {"chat", "get_error_help"} /\ SomeFailed(lastAi.reqs))
                     => IsMessage(lastAi.result)
    /\ lastHelp.called
           => /\ ~lastHelp.raised
              /\ SomeFailed(lastHelp.reqs) => IsMessage(lastHelp.result)

\* chat got a 2xx answer whose body was not JSON, after get_help had run into a
\* refused connection: both returned their message.
C14_Witness ==
    /\ lastAi.called /\ lastAi.op = "chat"
    /\ Len(lastAi.reqs) = 2 /\ lastAi.reqs[2].out = "badjson"
    /\ lastAi.result.msg = "Error in chat: "
    /\ lastHelp.called
    /\ Len(lastHelp.reqs) = 2 /\ lastHelp.reqs[2].out = "conn"
    /\ lastHelp.result.msg = "Connection error. Try: man "


\* C11: CommandRegistry.execute resolves a line in a fixed priority. A line
\* whose lower-cased form is a zero-argument command name gets that command's
\* handler, whatever else it looks like; otherwise a line starting with
\* "/model " gets the model-switch handler, even when it ends in "?";
\* otherwise a line ending in "?" gets the help-request handler; any other
\* line gets no handler and the call returns None.
C11_RouterPriority ==
    lastLoop.event = "router" =>
        LET line == lastLoop.raw
            exact == Lower(line) \in DOMAIN Commands
            prefix == StartsWith(line, L.model)
            question == EndsWith(line, <<"?">>)
        IN  /\ exact => lastLoop.handler = Commands[Lower(line)]
            /\ ~exact /\ prefix => lastLoop.handler = "handle_model_switch"
            /\ ~exact /\ ~prefix /\ question => lastLoop.handler = "handle_help_request"
            /\ ~exact /\ ~prefix /\ ~question =>
                   lastLoop.handler = "none" /\ lastLoop.ret = "none"
            /\ lastLoop.handler # "none" => lastLoop.ret # "none" \/ lastLoop.caught # "none"

\* `/model mystery?` starts with the "/model " prefix and ends in "?": it
\* reached the model-switch handler, which asked for the model "mystery?".
C11_Witness ==
    /\ lastLoop.event = "router" /\ lastLoop.handler = "handle_model_switch"
    /\ lastLoop.raw = L.model \o T.mystery \o <<"?">>
    /\ lastSwitch.called /\ lastSwitch.name = T.mystery \o <<"?">>


\* What is known of the last iteration about an AI-dependent input. help: a
\* `<cmd>?` line with a command name went to the router's help-request handler;
\* chat: a conversational line went to the chat handler; down: the backend
\* does not answer the health probe; notice: what the handler prints when
\* is_available() is False.
AiInput ==
    LET name == Strip(SubSeq(lastLoop.line, 1, Len(lastLoop.line) - 1))
        chat == /\ lastLoop.event = "line" /\ lastLoop.modeBefore
                /\ lastLoop.dispatch = "chat" /\ lastLoop.handler = "chat"
    IN  [help |-> /\ lastLoop.event = "line" /\ ~lastLoop.modeBefore
                  /\ lastLoop.dispatch = "router"
                  /\ lastLoop.handler = "handle_help_request"
                  /\ name # <<>>,
         chat |-> chat,
         down |-> lastLoop.probe \notin {"none", "ok"},
         notice |-> IF chat THEN Say("AI not available for chat mode", <<>>)
                    ELSE Say("AI not available for help. Try: man ", name)]

\* C12 as stated: with the backend unavailable, a `<cmd>?` line or a
\* conversational chat line sends zero requests and only reports
\* unavailability.
C12_NoRequestWhenDown ==
    (AiInput.help \/ AiInput.chat) /\ AiInput.down =>
        lastLoop.reqs = <<>> /\ lastLoop.msg = AiInput.notice

\* C12 amended: with the backend unavailable, a `<cmd>?` line or a
\* conversational chat line sends exactly one request, the health probe to the
\* catalog endpoint, which fails; no completion request is sent and the handler
\* only reports unavailability.
C12_OnlyProbeWhenDown ==
    (AiInput.help \/ AiInput.chat) /\ AiInput.down =>
        /\ lastLoop.reqs = <<Req("tags", lastLoop.probe, <<>>)>>
        /\ \A i \in DOMAIN lastLoop.reqs : lastLoop.reqs[i].ep # "generate"
        /\ lastLoop.msg = AiInput.notice

\* `ls?` entered in normal mode while the backend refuses connections.
C12_Witness ==
    /\ AiInput.help /\ AiInput.down
    /\ lastLoop.line = Cmd.ls \o <<"?">>
    /\ lastLoop.msg = Say("AI not available for help. Try: man ", Cmd.ls)


\* C13: the interactive loop has ended only if the last thing that happened
\* was end-of-input (at the prompt, or met by a handler that was reading
\* input) or the exit command entered in normal mode; only the exit handler
\* returns the terminate signal; and an iteration in which an exception other
\* than end-of-input was caught (Exception, KeyboardInterrupt) leaves the loop
\* and the process running.
C13_LoopEndsOnlyOnExitOrEof ==
    LET IsExitLine(line) == Lower(line) \in {Cmd.exit, Cmd.slexit} IN
    /\ ~looping =>
           \/ lastLoop.event = "eof"
           \/ lastLoop.event = "line" /\ lastLoop.caught = "EOFError"
           \/ /\ lastLoop.event = "line" /\ ~lastLoop.modeBefore
              /\ IsExitLine(lastLoop.line) /\ lastLoop.caught = "none"
              /\ lastLoop.handler = "handle_exit"
    /\ lastLoop.ret = "terminate" =>
           lastLoop.handler = "handle_exit" /\ IsExitLine(lastLoop.line)
    /\ lastLoop.caught \in {"Exception", "KeyboardInterrupt"} => looping
    /\ running

\* `cd '/a` cannot be tokenised: the executor raised, the loop caught the
\* exception, reported it and goes on.
C13_Witness ==
    /\ lastLoop.event = "line" /\ lastLoop.line = L.cdsp \o <<"'">> \o P.a
    /\ lastLoop.dispatch = "executor" /\ lastLoop.caught = "Exception"
    /\ looping /\ running


\* C15: a line entered while chat mode is on is handled by the chat handler
\* only (or skipped as empty, or interrupted): it does not reach the router's
\* handlers or the executor, no shell command runs, and the working directory
\* and the last exit code are what they were before the line.
C15_ChatModeBypassesShell ==
    lastLoop.event = "line" /\ lastLoop.modeBefore =>
        /\ lastLoop.dispatch \in {"skip", "chat", "interrupted"}
        /\ lastLoop.handler \in {"none", "chat"} \cup {ChatCommands[c] : c \in DOMAIN ChatCommands}
        /\ lastLoop.shell = <<>>
        /\ cwd = lastLoop.cwdBefore
        /\ last_exit_code = lastLoop.lecBefore

\* `cd /a` entered in chat mode went to the chat handler as a message; the
\* working directory did not change.
C15_Witness ==
    /\ lastLoop.event = "line" /\ lastLoop.modeBefore
    /\ lastLoop.line = L.cdsp \o P.a
    /\ lastLoop.dispatch = "chat" /\ lastLoop.handler = "chat"
    /\ cwd = lastLoop.cwdBefore /\ cwd # P.a


\* C18 as stated: the chat-mode flag and the history change only in an
\* iteration whose line the router or the chat handler handled; the loop's
\* input handling and interrupt handling change neither.
C18_OnlyRouterAndChatWrite ==
    (\/ chat_mode # lastLoop.modeBefore
     \/ recent_commands # lastLoop.histBefore
     \/ command_count # lastLoop.countBefore)
        => /\ lastLoop.dispatch \in {"router", "chat"}
           /\ lastLoop.handler # "none"
           /\ lastLoop.caught # "KeyboardInterrupt"

\* C18 amended: the chat-mode flag is written only by the router's /chat
\* handler, by the chat handler's /exit command and by the loop's interrupt
\* handling, which clears it; the history is written only by the loop's input
\* handling, which appends every non-empty line before dispatching it, so what
\* the history becomes does not depend on who handles the line.
C18_SessionStateWriters ==
    /\ chat_mode # lastLoop.modeBefore =>
           \/ /\ lastLoop.dispatch = "router" /\ lastLoop.handler = "handle_chat"
              /\ chat_mode
           \/ /\ lastLoop.dispatch = "chat" /\ lastLoop.handler = "exit_chat"
              /\ ~chat_mode
           \/ lastLoop.caught = "KeyboardInterrupt" /\ ~chat_mode
    /\ recent_commands =
           IF lastLoop.event = "line" /\ lastLoop.line # <<>>
           THEN AddCommand(lastLoop.histBefore, lastLoop.line)
           ELSE lastLoop.histBefore
    /\ command_count =
           IF lastLoop.event = "line" /\ lastLoop.line # <<>>
           THEN lastLoop.countBefore + 1
           ELSE lastLoop.countBefore

\* Ctrl+C while a line entered in chat mode was being handled: the loop had
\* appended the line to the history, and its interrupt handling cleared the flag.
C18_Witness ==
    /\ lastLoop.event = "line" /\ lastLoop.dispatch = "interrupted"
    /\ lastLoop.modeBefore /\ ~chat_mode
    /\ recent_commands = Append(lastLoop.histBefore, lastLoop.line)


\* C20: chat mode is entered only by `/chat` handled by the router in normal
\* mode, and left only by `/exit` handled in chat mode or by Ctrl+C. A line
\* entered in chat mode whose lower-cased form is a chat command gets that
\* command's handler and sends nothing to the backend; any other line is a
\* conversational message. `/exit` in chat mode returns to normal mode and the
\* loop goes on.
C20_ChatModeTransitions ==
    /\ ~lastLoop.modeBefore /\ chat_mode =>
           /\ lastLoop.event = "line" /\ Lower(lastLoop.line) = Cmd.chat
           /\ lastLoop.dispatch = "router" /\ lastLoop.handler = "handle_chat"
    /\ lastLoop.modeBefore /\ ~chat_mode =>
           \/ /\ lastLoop.event = "line" /\ Lower(lastLoop.line) = Cmd.slexit
              /\ lastLoop.dispatch = "chat" /\ lastLoop.handler = "exit_chat"
           \/ lastLoop.caught = "KeyboardInterrupt"
    /\ lastLoop.event = "line" /\ lastLoop.modeBefore /\ lastLoop.dispatch = "chat" =>
           IF Lower(lastLoop.line) \in DOMAIN ChatCommands
           THEN /\ lastLoop.handler = ChatCommands[Lower(lastLoop.line)]
                /\ lastLoop.reqs = <<>>
           ELSE lastLoop.handler = "chat"
    /\ lastLoop.dispatch = "chat" /\ lastLoop.handler = "exit_chat" =>
           ~chat_mode /\ looping /\ lastLoop.caught = "none"

\* `/Exit` entered in chat mode: back in normal mode, the loop goes on.
C20_Witness ==
    /\ lastLoop.event = "line" /\ lastLoop.modeBefore
    /\ lastLoop.line = <<"/", "E", "x", "i", "t">>
    /\ lastLoop.handler = "exit_chat"
    /\ ~chat_mode /\ looping


\* C21: a get_help call that finds the cache full and inserts an entry evicts
\* the entry inserted earliest (the others keep their order) and keeps the new
\* entry, which is the last one; a call served from the cache changes neither
\* the contents nor the order of the cache, so a hit does not protect an entry.
C21_EvictsOldestInserted ==
    [][LET called == helpCalls' = helpCalls + 1
           inserted == called /\ ~lastHelp'.hit /\ lastHelp'.result.msg = "bulb "
           full == Len(help_cache) = c_HelpCacheMax
       IN  /\ inserted =>
                  /\ help_cache'[Len(help_cache')] =
                         [key |-> HelpKey(lastHelp'.command, lastHelp'.cwd),
                          text |-> lastHelp'.result]
                  /\ full => /\ Len(help_cache') = c_HelpCacheMax
                             /\ SubSeq(help_cache', 1, c_HelpCacheMax - 1) = Tail(help_cache)
                  /\ ~full => help_cache' = Append(help_cache, help_cache'[Len(help_cache')])
           /\ called /\ ~inserted => help_cache' = help_cache]_vars

\* The first command's entry was served as a hit by the call before the last
\* one; the last call inserted the twenty-first entry, and the first command's
\* entry is the one that is gone.
C21_Witness ==
    /\ Len(help_cache) = c_HelpCacheMax
    /\ prevHelp.called /\ prevHelp.hit /\ prevHelp.command = HelpCmd(1)
    /\ lastHelp.called /\ ~lastHelp.hit /\ lastHelp.result.msg = "bulb "
    /\ ~CacheHas(help_cache, HelpKey(prevHelp.command, prevHelp.cwd))
    /\ CacheHas(help_cache, HelpKey(lastHelp.command, lastHelp.cwd))

\* C22: for a line that reaches the executor, the loop calls get_error_help,
\* with the line and the stderr the executor captured, exactly when the executor
\* returned a non-zero exit code, ai.help_on_error is true and the health probe
\* succeeds; with exit code 0 or help_on_error false it sends nothing to the
\* backend, not even the probe; and whatever the diagnostic call does, the loop
\* goes on.
C22_DiagnosticsOnFailure ==
    [][LET now == lastLoop'
           failed == ~lastExec'.raised /\ lastExec'.result.exit_code # 0
           wants == Truthy(ConfigGet(settings, <<"ai", "help_on_error">>, S(T.true)))
           up == IsAvailable(now.probe)
           requested == Len(now.reqs) > 1
       IN  command_count' = command_count + 1 /\ now.dispatch = "executor" =>
               /\ lastExec'.called /\ lastExec'.line = now.line
               /\ requested <=> (failed /\ wants /\ up)
               /\ requested =>
                      /\ lastAi'.op = "get_error_help"
                      /\ lastAi'.text = now.line
                      /\ lastAi'.error_output = lastExec'.result.stderr
                      /\ now.reqs = <<Req("tags", now.probe, <<>>)>> \o lastAi'.reqs
               /\ ~requested => lastAi' = lastAi
               /\ (~failed \/ ~wants) => now.reqs = <<>>
               /\ looping']_vars

\* C22 witness: a failed command whose diagnostic request itself failed, with
\* the loop still running.
C22_Witness ==
    /\ lastLoop.event = "line" /\ lastLoop.dispatch = "executor"
    /\ lastExec.line = lastLoop.line /\ lastExec.result.exit_code = 127
    /\ Len(lastLoop.reqs) = 3
    /\ lastAi.op = "get_error_help" /\ lastAi.text = lastLoop.line
    /\ lastAi.error_output = [msg |-> "err", arg |-> <<>>]
    /\ lastAi.result.msg = "Error getting AI suggestions"
    /\ looping

\* C23: after n add_command calls, recent_commands holds exactly the last
\* min(n, 50) commands given, oldest first, never more than 50 of them, and
\* command_count is n.
C23_HistoryKeepsLastFifty ==
    LET n == command_count
        kept == IF n < c_HistoryMax THEN n ELSE c_HistoryMax
    IN  /\ Len(recent_commands) = kept
        /\ Len(recent_commands) <= c_HistoryMax
        /\ \A i \in 1..kept : recent_commands[i] = HistCmd(n - kept + i)

\* C23 witness: more than 50 commands were added, so the oldest were dropped.
C23_Witness ==
    /\ command_count = c_HistoryMax + 2
    /\ Len(recent_commands) = c_HistoryMax
    /\ recent_commands[1] = HistCmd(3)
    /\ recent_commands[c_HistoryMax] = HistCmd(c_HistoryMax + 2)

\* C24: the spinner thread started for a help or chat request is stopped and
\* joined before the response or the error message of that request is printed:
\* when the handler is about to print, the thread has ended, and on the
\* terminal the result follows the line clearing of stop(), after which no
\* frame of that request's spinner is ever written.
C24_SpinnerJoinedBeforeResult ==
    /\ pc.at = "print" /\ pc.ind # 0 =>
           /\ ~indicators[pc.ind].is_running
           /\ indicators[pc.ind].thread = "done"
    /\ \A j \in DOMAIN stdout :
           stdout[j].what \in {"response", "error"} /\ stdout[j].ind # 0 =>
               \E c \in 1..(j - 1) :
                   /\ stdout[c] = Wrote("clear", stdout[j].ind)
                   /\ \A k \in DOMAIN stdout :
                          k >= c => stdout[k] # Wrote("frame", stdout[j].ind)

\* C24 witness: a request whose spinner wrote a frame printed its response
\* after stop(), and a second request with a spinner printed its error message
\* after stop().
C24_Witness ==
    /\ Len(stdout) = 5
    /\ SubSeq(stdout, 1, 3) = <<Wrote("frame", 1), Wrote("clear", 1), Wrote("response", 1)>>
    /\ SubSeq(stdout, 4, 5) = <<Wrote("clear", 2), Wrote("error", 2)>>

\* C25: whenever the main loop is back at reading the next line, no spinner
\* thread is running, also after Ctrl+C during a help or chat request.
C25_NoSpinnerAtPrompt ==
    pc.at = "input" => \A i \in DOMAIN indicators : indicators[i].thread = "done"

\* C26: distinct (command text, working directory) pairs never share a
\* help-cache entry: a call served from the cache asked for the command, in the
\* directory, of the call that stored the entry.
C26_CacheKeyInjective ==
    LET stored == prevHelp.called /\ ~prevHelp.hit /\ prevHelp.result.msg = "bulb "
        served == lastHelp.called /\ lastHelp.hit
    IN  stored /\ served /\ Len(help_cache) = 1 =>
            /\ lastHelp.command = prevHelp.command
            /\ lastHelp.cwd = prevHelp.cwd

\* C27: the compiled-in default configuration is never modified at run time:
\* after any Config.set calls, from any load path, it holds its original
\* values, and reset_to_defaults makes the settings equal to them.
C27_DefaultsNeverModified ==
    /\ defaults = DefaultConfig
    /\ running /\ lastCfg.op = "reset" => settings = DefaultConfig

C29_NoRequestsWhenDisabled ==
    [][/\ command_count' = command_count + 1
       /\ ~Truthy(ConfigGet(settings, <<"ai", "enabled">>, S(T.true)))
       /\ lastLoop'.handler # "handle_setup"
       => lastLoop'.reqs = <<>>]_vars

\* C30: for every non-empty line given to execute, either the whole line is
\* handed verbatim to the shell, or the line is a cd with at most one argument
\* handled in-process; no part of a line is ignored.
C30_WholeLineTakesEffect ==
    LET line == lastExec.line
        sp == ShlexSplit(line)
        handed == \/ lastExec.shell = <<line>>
                  \/ lastExec.result.stderr.msg = "Command execution failed: "
        cd == /\ StartsWith(line, L.cdsp) \/ Strip(line) = L.cd
              /\ lastExec.shell = <<>>
              /\ sp.ok => Len(sp.toks) <= 2
    IN  lastExec.called /\ Strip(line) # <<>> => handed \/ cd

====
